---- MODULE Spec2Model ----
(***************************************************************************)
(* A model of the People Manager plugin (src/src/index.ts): its date       *)
(* utilities, its birthday parser, its reminder derivation and the         *)
(* recurring birthday task lifecycle.                                      *)
(*                                                                         *)
(* A JavaScript Date is modelled by its local calendar components          *)
(* [year, month, date], month 0-based as getMonth() returns it.  The time  *)
(* of a local midnight is counted in hours, so that the division by one    *)
(* day in getDaysUntilBirthday keeps its rounding.  The time zone of the   *)
(* machine is part of the environment (variable tz).                       *)
(***************************************************************************)
EXTENDS Integers, Sequences, FiniteSets, TLC

VARIABLES
    today,        \* the local calendar date of "new Date()"
    tz,           \* the machine's time zone: "UTC", "West" or "DST"
    birthday,     \* argument of the date utilities
    called,       \* the date utilities applied so far
    daysUntil,    \* result of getDaysUntilBirthday(birthday)
    nextBirthday, \* result of getNextBirthdayDate(birthday)
    age,          \* result of calculateAge(birthday)
    people,       \* argument of the reminder derivation: a list of Person
    withinDays,   \* argument of getUpcomingBirthdays
    reminders,    \* result of getUpcomingBirthdays(people, withinDays)
    input,        \* argument of parseBirthdayInput: the text, as a list of tokens
    native,       \* what the engine's own "new Date(text)" makes of the text
    parsed,       \* result of parseBirthdayInput(input)
    formatted,    \* result of formatDateForLogseq(parsed)
    persons,      \* the store: the page of each person name, or NoPage
    journals,     \* the store: the names of the journal pages that exist
    copies,       \* the store: the names of which a second journal page exists
    blocks,       \* the store: the task blocks appended to journal pages
    handlers,     \* the invocations of handleBirthdayTaskCompleted
    result,       \* what the last createPerson returned
    faults,       \* the number of external calls that have rejected
    pages,        \* the store: the raw pages the people query returns, in order
    getBlockPlan, \* the getBlock call of getAllPeople that fails, and how
    contacts,     \* result of getPeopleToContact(people)
    obj,          \* argument of findProperty: the keys of a record, in key order
    baseName,     \* argument of findProperty
    property,     \* result of findProperty(obj, baseName)
    changed,      \* the blocks of a change notification
    scheduled,    \* the names handleBirthdayTaskCompleted was scheduled for
    check,        \* the run of checkAndCreateReminders
    data          \* argument of createPerson, when one call is examined

envVars == <<today, tz>>
arithVars == <<birthday, daysUntil, nextBirthday, age>>
remindVars == <<people, withinDays, reminders>>
parseVars == <<input, native, parsed, formatted>>
storeVars == <<persons, journals, copies, blocks>>
lifeVars == <<persons, journals, copies, blocks, handlers, result, faults>>
queryVars ==
    <<pages, getBlockPlan, contacts, obj, baseName, property, changed, scheduled, check, data>>

vars == <<today, tz, called, birthday, daysUntil, nextBirthday, age,
          people, withinDays, reminders, input, native, parsed, formatted,
          persons, journals, copies, blocks, handlers, result, faults,
          pages, getBlockPlan, contacts, obj, baseName, property, changed, scheduled, check,
          data>>

----------------------------------------------------------------------------
(* Bounds of the model *)

\* number of calendar years "today" ranges over, starting at FirstYear
MaxYears == 3

\* longest list of people given to the reminder derivation
MaxPeople == 3

\* most task blocks the store holds
MaxBlocks == 3

\* most completions of a birthday task that are handled
MaxHandlers == 2

\* most external calls that reject in one run
MaxFaults == 1

----------------------------------------------------------------------------
(* The Gregorian calendar and the JavaScript Date constructor *)

FirstYear == 2023

HoursPerDay == 24

Null == [null |-> TRUE]

IsLeap(y) == (y % 4 = 0 /\ y % 100 # 0) \/ y % 400 = 0

\* length of month m (0-based) of year y
DaysInMonth(y, m) ==
    IF m = 1 THEN (IF IsLeap(y) THEN 29 ELSE 28)
    ELSE IF m \in {3, 5, 8, 10} THEN 30 ELSE 31

RECURSIVE DaysBeforeMonth(_, _)
DaysBeforeMonth(y, m) ==
    IF m = 0 THEN 0 ELSE DaysBeforeMonth(y, m - 1) + DaysInMonth(y, m - 1)

\* days from 0001-01-01 to the first of January of year y
DaysBeforeYear(y) ==
    365 * (y - 1) + ((y - 1) \div 4) - ((y - 1) \div 100) + ((y - 1) \div 400)

\* the day number of day d of month m of year y; d may lie outside the month
DayNumber(y, m, d) == DaysBeforeYear(y) + DaysBeforeMonth(y, m) + d - 1

\* the calendar date of day number n
FromDayNumber(n) ==
    LET y == CHOOSE c \in ((n \div 366) .. (n \div 365) + 1) :
                 DaysBeforeYear(c) <= n /\ n < DaysBeforeYear(c + 1)
        r == n - DaysBeforeYear(y)
        m == CHOOSE c \in 0..11 :
                 DaysBeforeMonth(y, c) <= r /\ r < DaysBeforeMonth(y, c) + DaysInMonth(y, c)
    IN [year |-> y, month |-> m, date |-> r - DaysBeforeMonth(y, m) + 1]

\* new Date(year, monthIndex, day): a year 0..99 means 1900 + year, and a month
\* or a day outside its range carries into the next (or previous) year or month
MakeDate(y, m, d) ==
    LET fullYear == IF 0 <= y /\ y <= 99 THEN 1900 + y ELSE y
        count == fullYear * 12 + m
    IN FromDayNumber(DayNumber(count \div 12, count % 12, 1) + d - 1)

\* date.setFullYear(y): the month and the day of the month are kept, and the
\* result is normalised again
setFullYear(date, y) == FromDayNumber(DayNumber(y, date.month, 1) + date.date - 1)

getFullYear(date) == date.year
getMonth(date) == date.month
getDate(date) == date.date

IsValidDate(y, m, d) == m \in 0..11 /\ d >= 1 /\ d <= DaysInMonth(y, m)

DateLess(a, b) == DayNumber(a.year, a.month, a.date) < DayNumber(b.year, b.month, b.date)

\* whether daylight saving time is in effect at the local midnight of a date, in
\* the zone that has it (April to October)
InDST(date) == date.month \in 3..9

\* the offset of local time from UTC, in hours, at the local midnight of a date
TimezoneOffset(date) ==
    IF tz = "West" THEN -5
    ELSE IF tz = "DST" THEN (IF InDST(date) THEN 2 ELSE 1)
    ELSE 0

\* date.getTime() of a Date at local midnight, in hours
getTime(date) == HoursPerDay * DayNumber(date.year, date.month, date.date) - TimezoneOffset(date)

\* Math.ceil(a / b) and Math.floor(a / b) for b > 0
Ceil(a, b) == -((-a) \div b)
Floor(a, b) == a \div b

----------------------------------------------------------------------------
(* Date utilities *)

getDaysUntilBirthday(b) ==
    LET start == MakeDate(getFullYear(today), getMonth(b), getDate(b))
        thisYearBirthday ==
            IF getTime(start) < getTime(today)
            THEN setFullYear(start, getFullYear(today) + 1)
            ELSE start
    IN Ceil(getTime(thisYearBirthday) - getTime(today), HoursPerDay)

\* calculateAge with the day comparison made inclusive
calculateAge_DayInclusive(b) ==
    LET years == getFullYear(today) - getFullYear(b)
        monthDiff == getMonth(today) - getMonth(b)
    IN IF monthDiff < 0 \/ (monthDiff = 0 /\ getDate(today) <= getDate(b))
       THEN years - 1
       ELSE years

calculateAge(b) ==
    LET years == getFullYear(today) - getFullYear(b)
        monthDiff == getMonth(today) - getMonth(b)
    IN IF monthDiff < 0 \/ (monthDiff = 0 /\ getDate(today) < getDate(b))
       THEN years - 1
       ELSE years

getNextBirthdayDate(b) ==
    LET start == MakeDate(getFullYear(today), getMonth(b), getDate(b))
    IN IF getTime(start) <= getTime(today)
       THEN setFullYear(start, getFullYear(today) + 1)
       ELSE start

----------------------------------------------------------------------------
(* Text.  A text is a list of tokens: a run of digits (its value v and its     *)
(* number of digits n), a run of letters (w, in lower case, and its casing c), *)
(* or one of the characters "/", "-", ".", "," and " " (a run of white space). *)

Num(v, n) == [t |-> "num", v |-> v, n |-> n, w |-> "", c |-> ""]
Word(w, c) == [t |-> "word", v |-> 0, n |-> 0, w |-> w, c |-> c]
Chr(ch) == [t |-> ch, v |-> 0, n |-> 0, w |-> "", c |-> ""]

\* \d{4} and \d{1,2}
IsDigits4(tok) == tok.t = "num" /\ tok.n = 4
IsDigits12(tok) == tok.t = "num" /\ tok.n \in {1, 2}
\* [a-zA-Z]+
IsLetters(tok) == tok.t = "word"

parseInt(tok) == tok.v
toLowerCase(tok) == tok.w

\* the number of digits String(n) has, n >= 0
RECURSIVE DigitCount(_)
DigitCount(n) == IF n < 10 THEN 1 ELSE 1 + DigitCount(n \div 10)

\* String(n).padStart(2, '0')
padStart2(n) == Num(n, IF DigitCount(n) < 2 THEN 2 ELSE DigitCount(n))

formatDateForLogseq(date) ==
    <<Num(getFullYear(date), DigitCount(getFullYear(date))), Chr("-"),
      padStart2(getMonth(date) + 1), Chr("-"), padStart2(getDate(date))>>

----------------------------------------------------------------------------
(* The birthday parser *)

months ==
    [jan |-> 0, january |-> 0, feb |-> 1, february |-> 1, mar |-> 2, march |-> 2,
     apr |-> 3, april |-> 3, may |-> 4, jun |-> 5, june |-> 5, jul |-> 6, july |-> 6,
     aug |-> 7, august |-> 7, sep |-> 8, sept |-> 8, september |-> 8,
     oct |-> 9, october |-> 9, nov |-> 10, november |-> 10, dec |-> 11, december |-> 11]

\* /^(\d{4})-(\d{1,2})-(\d{1,2})$/
isoMatch(txt) ==
    /\ Len(txt) = 5
    /\ IsDigits4(txt[1]) /\ txt[2].t = "-" /\ IsDigits12(txt[3])
    /\ txt[4].t = "-" /\ IsDigits12(txt[5])

\* /^(\d{1,2})[\/\-\.](\d{1,2})[\/\-\.](\d{4})$/
euroMatch(txt) ==
    /\ Len(txt) = 5
    /\ IsDigits12(txt[1]) /\ txt[2].t \in {"/", "-", "."} /\ IsDigits12(txt[3])
    /\ txt[4].t \in {"/", "-", "."} /\ IsDigits4(txt[5])

\* /^(\d{1,2})[\/\-](\d{1,2})[\/\-](\d{4})$/
usMatch(txt) ==
    /\ Len(txt) = 5
    /\ IsDigits12(txt[1]) /\ txt[2].t \in {"/", "-"} /\ IsDigits12(txt[3])
    /\ txt[4].t \in {"/", "-"} /\ IsDigits4(txt[5])

\* /^(\d{1,2})\s+([a-zA-Z]+)\s+(\d{4})$/
dayMonthYearMatch(txt) ==
    /\ Len(txt) = 5
    /\ IsDigits12(txt[1]) /\ txt[2].t = " " /\ IsLetters(txt[3])
    /\ txt[4].t = " " /\ IsDigits4(txt[5])

\* /^([a-zA-Z]+)\s+(\d{1,2}),?\s+(\d{4})$/
monthDayYearMatch(txt) ==
    /\ Len(txt) \in {5, 6}
    /\ IsLetters(txt[1]) /\ txt[2].t = " " /\ IsDigits12(txt[3])
    /\ (Len(txt) = 6 => txt[4].t = ",")
    /\ txt[Len(txt) - 1].t = " " /\ IsDigits4(txt[Len(txt)])

\* /^(\d{4})\s+([a-zA-Z]+)\s+(\d{1,2})$/
yearMonthDayMatch(txt) ==
    /\ Len(txt) = 5
    /\ IsDigits4(txt[1]) /\ txt[2].t = " " /\ IsLetters(txt[3])
    /\ txt[4].t = " " /\ IsDigits12(txt[5])

\* the US branch of parseBirthdayInput
usBranch(txt) ==
    LET firstNum == parseInt(txt[1])
        secondNum == parseInt(txt[3])
        year == parseInt(txt[5])
    IN IF firstNum > 12 THEN MakeDate(year, secondNum - 1, firstNum)
       ELSE IF secondNum > 12 THEN MakeDate(year, firstNum - 1, secondNum)
       ELSE MakeDate(year, secondNum - 1, firstNum)

\* parseBirthdayInput(input), where nativeDate is the value of the fallback
\* "new Date(trimmed)", Null when that is an Invalid Date
parseBirthdayInput(txt, nativeDate) ==
    IF txt = <<>> THEN Null
    ELSE IF isoMatch(txt)
        THEN MakeDate(parseInt(txt[1]), parseInt(txt[3]) - 1, parseInt(txt[5]))
    ELSE IF euroMatch(txt)
        THEN MakeDate(parseInt(txt[5]), parseInt(txt[3]) - 1, parseInt(txt[1]))
    ELSE IF usMatch(txt)
        THEN usBranch(txt)
    ELSE IF dayMonthYearMatch(txt) /\ toLowerCase(txt[3]) \in DOMAIN months
        THEN MakeDate(parseInt(txt[5]), months[toLowerCase(txt[3])], parseInt(txt[1]))
    ELSE IF monthDayYearMatch(txt) /\ toLowerCase(txt[1]) \in DOMAIN months
        THEN MakeDate(parseInt(txt[Len(txt)]), months[toLowerCase(txt[1])], parseInt(txt[3]))
    ELSE IF yearMonthDayMatch(txt) /\ toLowerCase(txt[3]) \in DOMAIN months
        THEN MakeDate(parseInt(txt[1]), months[toLowerCase(txt[3])], parseInt(txt[5]))
    ELSE nativeDate

----------------------------------------------------------------------------
(* Reminder logic *)

\* the variant that shows the age reached so far
reminderAge_Current(b, du) == calculateAge(b)

\* the variant that adds the year on the birthday itself instead
reminderAge_Swapped(b, du) ==
    IF du = 0 THEN calculateAge(b) + 1 ELSE calculateAge(b)

\* the age shown in a birthday reminder
reminderAge(b, du) ==
    IF du = 0 THEN calculateAge(b) ELSE calculateAge(b) + 1

\* the loop of getUpcomingBirthdays: the reminders pushed, in input order
RECURSIVE pushBirthdayReminders(_, _)
pushBirthdayReminders(ps, within) ==
    IF ps = <<>> THEN <<>>
    ELSE LET person == Head(ps)
             rest == pushBirthdayReminders(Tail(ps), within)
         IN IF person.birthday = Null THEN rest
            ELSE LET du == getDaysUntilBirthday(person.birthday)
                 IN IF du <= within
                    THEN <<[person |-> person, daysUntil |-> du,
                            age |-> reminderAge(person.birthday, du)]>> \o rest
                    ELSE rest

\* the comparator (a, b) => a.daysUntil - b.daysUntil
compareDaysUntil(a, b) == a.daysUntil - b.daysUntil

\* the variant of an unstable sort: an element goes before its equals
RECURSIVE insertByDaysUntil_Unstable(_, _)
insertByDaysUntil_Unstable(sorted, x) ==
    IF sorted = <<>> THEN <<x>>
    ELSE IF compareDaysUntil(Head(sorted), x) < 0
         THEN <<Head(sorted)>> \o insertByDaysUntil_Unstable(Tail(sorted), x)
         ELSE <<x>> \o sorted

\* Array.prototype.sort is stable: an element goes behind every element that
\* does not compare greater than it
RECURSIVE insertByDaysUntil(_, _)
insertByDaysUntil(sorted, x) ==
    IF sorted = <<>> THEN <<x>>
    ELSE IF compareDaysUntil(Head(sorted), x) <= 0
         THEN <<Head(sorted)>> \o insertByDaysUntil(Tail(sorted), x)
         ELSE <<x>> \o sorted

RECURSIVE sortByDaysUntil(_)
sortByDaysUntil(s) ==
    IF s = <<>> THEN <<>>
    ELSE insertByDaysUntil(sortByDaysUntil(SubSeq(s, 1, Len(s) - 1)), s[Len(s)])

getUpcomingBirthdays(ps, within) == sortByDaysUntil(pushBirthdayReminders(ps, within))

\* a value of type "number | null": null, NaN, or an integer
NullNumber == [kind |-> "null", v |-> 0]
NaN == [kind |-> "NaN", v |-> 0]
Number(v) == [kind |-> "number", v |-> v]

\* whether a "number | null" is truthy: neither null, NaN nor 0
IsTruthyNumber(n) == n.kind = "number" /\ n.v # 0

getDaysSince(date) == Floor(getTime(today) - getTime(date), HoursPerDay)

\* the loop of getPeopleToContact: the reminders pushed, in input order; with
\* no last contact daysSince is Infinity, and so is daysSince - contactFrequency
RECURSIVE pushContactReminders(_)
pushContactReminders(ps) ==
    IF ps = <<>> THEN <<>>
    ELSE LET person == Head(ps)
             rest == pushContactReminders(Tail(ps))
         IN IF ~IsTruthyNumber(person.contactFrequency) THEN rest
            ELSE IF person.lastContact = Null
            THEN <<[person |-> person, daysSinceContact |-> -1,
                    daysOverdue |-> person.contactFrequency.v]>> \o rest
            ELSE LET daysSince == getDaysSince(person.lastContact)
                     daysOverdue == daysSince - person.contactFrequency.v
                 IN IF daysOverdue >= 0
                    THEN <<[person |-> person, daysSinceContact |-> daysSince,
                            daysOverdue |-> daysOverdue]>> \o rest
                    ELSE rest

\* the comparator (a, b) => b.daysOverdue - a.daysOverdue
compareDaysOverdue(a, b) == b.daysOverdue - a.daysOverdue

\* the variant of an unstable sort: an element goes before its equals
RECURSIVE insertByDaysOverdue_Unstable(_, _)
insertByDaysOverdue_Unstable(sorted, x) ==
    IF sorted = <<>> THEN <<x>>
    ELSE IF compareDaysOverdue(Head(sorted), x) < 0
         THEN <<Head(sorted)>> \o insertByDaysOverdue_Unstable(Tail(sorted), x)
         ELSE <<x>> \o sorted

RECURSIVE insertByDaysOverdue(_, _)
insertByDaysOverdue(sorted, x) ==
    IF sorted = <<>> THEN <<x>>
    ELSE IF compareDaysOverdue(Head(sorted), x) <= 0
         THEN <<Head(sorted)>> \o insertByDaysOverdue(Tail(sorted), x)
         ELSE <<x>> \o sorted

RECURSIVE sortByDaysOverdue(_)
sortByDaysOverdue(s) ==
    IF s = <<>> THEN <<>>
    ELSE insertByDaysOverdue(sortByDaysOverdue(SubSeq(s, 1, Len(s) - 1)), s[Len(s)])

getPeopleToContact(ps) == sortByDaysOverdue(pushContactReminders(ps))

----------------------------------------------------------------------------
(* The store of the host application, and the values read from it *)

NoPage == [exists |-> FALSE, tagged |-> FALSE, birthday |-> Null]

\* the name of a journal page is the text formatDateForLogseq gives its date
JournalDate(name) == [year |-> name[1].v, month |-> name[3].v - 1, date |-> name[5].v]

\* new Date("YYYY-MM-DD"): a date-only text is midnight UTC; in a zone west of
\* Greenwich its local calendar date is the day before
newDateOfText(txt) ==
    LET utc == [year |-> txt[1].v, month |-> txt[3].v - 1, date |-> txt[5].v]
    IN IF TimezoneOffset(utc) < 0
       THEN FromDayNumber(DayNumber(utc.year, utc.month, utc.date) - 1)
       ELSE utc

\* a text of the form YYYY-MM-DD, which "new Date(value)" reads as a date
IsDateOnlyForm(txt) ==
    /\ Len(txt) = 5
    /\ IsDigits4(txt[1]) /\ txt[2] = Chr("-")
    /\ txt[3].t = "num" /\ txt[3].n = 2 /\ txt[4] = Chr("-")
    /\ txt[5].t = "num" /\ txt[5].n = 2
    /\ IsValidDate(txt[1].v, txt[3].v - 1, txt[5].v)

\* parseDate of a text: null for no text; "new Date(value)" succeeds for a
\* date text; any other text of the model is no date and matches no pattern
parseDate(txt) ==
    IF txt = <<>> THEN Null
    ELSE IF IsDateOnlyForm(txt) THEN newDateOfText(txt)
    ELSE Null

\* the YYYYMMDD number of a journal page
journalDayOf(date) == date.year * 10000 + (date.month + 1) * 100 + date.date

parseJournalDay(journalDay) ==
    MakeDate(journalDay \div 10000, ((journalDay \div 100) % 100) - 1, journalDay % 100)

\* the value the host keeps for a birthday property set to a date text: the
\* text itself, or a reference to the journal page of that date
StoredBirthday(kind, txt) ==
    [kind |-> kind, text |-> txt,
     journalDay |-> journalDayOf([year |-> txt[1].v, month |-> txt[3].v - 1, date |-> txt[5].v])]

\* the task block "[[personName]]'s Birthday!" on a journal page; origin is the
\* page of the completed task that led to it (<<>> for a person's first task)
TaskBlock(page, personName, isTagged, origin) ==
    [page |-> page, person |-> personName, tagged |-> isTagged, status |-> "TODO",
     origin |-> origin]

----------------------------------------------------------------------------
(* Person creation *)

\* the external calls of createPerson, in order, then those of
\* createBirthdayReminderTask; "none" when no call rejects
PersonCalls == {"getPage", "createPage", "addBlockTag", "upsertBlockProperty"}
ReminderCalls == {"journal.getPage", "journal.createPage", "appendBlockInPage", "task.addBlockTag"}

\* createBirthdayReminderTask(personName, birthday): the journals and blocks it
\* leaves, when the call named by fault rejects (the rejection is caught)
createBirthdayReminderTask(personName, birthdayDate, fault) ==
    LET journalDateStr == formatDateForLogseq(getNextBirthdayDate(birthdayDate))
        found == journalDateStr \in journals
    IN IF fault = "journal.getPage" \/ (~found /\ fault = "journal.createPage")
       THEN [journals |-> journals, blocks |-> blocks]
       ELSE IF fault = "appendBlockInPage"
       THEN [journals |-> journals \cup {journalDateStr}, blocks |-> blocks]
       ELSE [journals |-> journals \cup {journalDateStr},
             blocks |-> Append(blocks, TaskBlock(journalDateStr, personName,
                                                 fault # "task.addBlockTag", <<>>))]

Failure(error) == [success |-> FALSE, error |-> error]
Success == [success |-> TRUE, error |-> ""]

\* data.name is a list of pieces of text, " " being white space; trim()
\* removes the white space at both ends
RECURSIVE trimStart(_)
trimStart(name) == IF name # <<>> /\ Head(name) = " " THEN trimStart(Tail(name)) ELSE name

RECURSIVE trimEnd(_)
trimEnd(name) ==
    IF name # <<>> /\ name[Len(name)] = " " THEN trimEnd(SubSeq(name, 1, Len(name) - 1))
    ELSE name

trim(name) == trimEnd(trimStart(name))

\* !data.name || data.name.trim() === ''
NameMissing(name) == name = <<>> \/ trim(name) = <<>>

\* the trimmed name (one piece of text in the model)
personNameOf(name) == trim(name)[1]

\* getPage(personName) finds a page
PageFound(personName) == persons[personName].exists

\* whether the call named by fault is made by createPerson(data), and so rejects
Rejects(name, txt, fault) ==
    /\ ~NameMissing(name)
    /\ \/ fault = "getPage"
       \/ /\ ~PageFound(personNameOf(name))
          /\ \/ fault \in {"createPage", "addBlockTag"}
             \/ /\ txt # <<>>
                /\ \/ fault \in {"upsertBlockProperty", "journal.getPage",
                                  "appendBlockInPage", "task.addBlockTag"}
                   \/ /\ fault = "journal.createPage"
                      /\ formatDateForLogseq(getNextBirthdayDate(newDateOfText(txt)))
                             \notin journals

\* createPerson(data) with data.name = name and data.birthday = txt (a date
\* text, or <<>> for none); kind is how the host keeps the property
CreatePerson(name, txt, kind, fault) ==
    /\ Len(blocks) < MaxBlocks
    /\ fault # "none" => faults < MaxFaults
    /\ UNCHANGED <<queryVars, envVars, called, arithVars, remindVars, parseVars, handlers>>
    /\ faults' = IF Rejects(name, txt, fault) THEN faults + 1 ELSE faults
    /\ copies' = copies
    /\ IF NameMissing(name)
       THEN /\ result' = Failure("Name is required")
            /\ UNCHANGED storeVars
       ELSE IF fault = "getPage"
       THEN /\ result' = Failure("rejected")
            /\ UNCHANGED storeVars
       ELSE IF PageFound(personNameOf(name))
       THEN /\ result' = Failure("A page named \"" \o personNameOf(name) \o "\" already exists")
            /\ UNCHANGED storeVars
       ELSE IF fault = "createPage"
       THEN /\ result' = Failure("rejected")
            /\ UNCHANGED storeVars
       ELSE IF fault = "addBlockTag"
       THEN /\ result' = Failure("rejected")
            /\ persons' = [persons EXCEPT ![personNameOf(name)] =
                              [exists |-> TRUE, tagged |-> FALSE, birthday |-> Null]]
            /\ UNCHANGED <<journals, blocks>>
       ELSE IF txt # <<>> /\ fault = "upsertBlockProperty"
       THEN /\ result' = Failure("rejected")
            /\ persons' = [persons EXCEPT ![personNameOf(name)] =
                              [exists |-> TRUE, tagged |-> TRUE, birthday |-> Null]]
            /\ UNCHANGED <<journals, blocks>>
       ELSE /\ result' = Success
            /\ persons' = [persons EXCEPT ![personNameOf(name)] =
                              [exists |-> TRUE, tagged |-> TRUE,
                               birthday |-> IF txt = <<>> THEN Null
                                            ELSE StoredBirthday(kind, txt)]]
            /\ IF txt = <<>>
               THEN UNCHANGED <<journals, blocks>>
               ELSE LET after == createBirthdayReminderTask(personNameOf(name),
                                                            newDateOfText(txt), fault)
                    IN /\ journals' = after.journals
                       /\ blocks' = after.blocks

----------------------------------------------------------------------------
(* Completion of a birthday task *)

\* the journal page handleBirthdayTaskCompleted schedules the next task on
nextYearJournal(birthdayDate) ==
    formatDateForLogseq(MakeDate(getFullYear(today) + 1, getMonth(birthdayDate),
                                 getDate(birthdayDate)))

Handler(pc, name, origin, ref, journalDateStr, block) ==
    [pc |-> pc, name |-> name, origin |-> origin, ref |-> ref,
     journalDateStr |-> journalDateStr, block |-> block]

\* The user marks the task block i done; the change listener sees a DONE
\* birthday task, extracts the person's name and, after its delay, calls
\* handleBirthdayTaskCompleted, whose first call is getPage(personName).
CompleteTask(i) ==
    /\ blocks[i].status = "TODO"
    /\ Len(handlers) < MaxHandlers
    /\ blocks' = [blocks EXCEPT ![i].status = "DONE"]
    /\ handlers' = Append(handlers,
                          Handler("getPage", blocks[i].person, blocks[i].page, 0, <<>>, 0))
    /\ UNCHANGED <<queryVars, envVars, called, arithVars, remindVars, parseVars, persons, journals,
                   copies, result, faults>>

SetHandler(h, new) ==
    /\ handlers' = [handlers EXCEPT ![h] = new]
    /\ UNCHANGED <<queryVars, envVars, called, arithVars, remindVars, parseVars, result>>

Resolves(h, new) == SetHandler(h, new) /\ UNCHANGED faults

\* a handler that has returned keeps nothing but whose completion it handled
Finished(h) == Handler("done", handlers[h].name, handlers[h].origin, 0, <<>>, 0)

\* getPage(personName) resolves: the birthday property is read, and a direct
\* value is parsed and the date of next year computed
HandlerGetPage(h) ==
    /\ handlers[h].pc = "getPage"
    /\ UNCHANGED storeVars
    /\ LET page == persons[handlers[h].name]
       IN IF ~page.exists \/ page.birthday = Null
          THEN Resolves(h, Finished(h))
          ELSE IF page.birthday.kind = "ref"
          THEN Resolves(h, [handlers[h] EXCEPT !.pc = "getBlock",
                                                 !.ref = page.birthday.journalDay])
          ELSE Resolves(h, [handlers[h] EXCEPT
                                 !.pc = "journal.getPage",
                                 !.journalDateStr =
                                     nextYearJournal(parseDate(page.birthday.text))])

\* getBlock(birthday.id) resolves to the journal page the property refers to
HandlerGetBlock(h) ==
    /\ handlers[h].pc = "getBlock"
    /\ UNCHANGED storeVars
    /\ Resolves(h, [handlers[h] EXCEPT
                         !.pc = "journal.getPage",
                         !.journalDateStr =
                             nextYearJournal(parseJournalDay(handlers[h].ref))])

\* getPage(journalDateStr) resolves
HandlerGetJournalPage(h) ==
    /\ handlers[h].pc = "journal.getPage"
    /\ UNCHANGED storeVars
    /\ Resolves(h, [handlers[h] EXCEPT
                         !.pc = IF handlers[h].journalDateStr \in journals
                                THEN "appendBlockInPage" ELSE "journal.createPage"])

\* what createPage(journalDateStr) can resolve to: the page it has created
\* or, when a page of that name has come to exist since getPage found none,
\* that page or a second page of the same name, as the host decides
CreatePageOutcomes(journalDateStr) ==
    IF journalDateStr \in journals THEN {"existing", "duplicate"} ELSE {"created"}

\* createPage(journalDateStr) resolves
HandlerCreateJournalPage(h, outcome) ==
    /\ handlers[h].pc = "journal.createPage"
    /\ outcome \in CreatePageOutcomes(handlers[h].journalDateStr)
    /\ journals' = journals \cup {handlers[h].journalDateStr}
    /\ copies' = IF outcome = "duplicate" THEN copies \cup {handlers[h].journalDateStr}
                 ELSE copies
    /\ UNCHANGED <<persons, blocks>>
    /\ Resolves(h, [handlers[h] EXCEPT !.pc = "appendBlockInPage"])

\* appendBlockInPage resolves
HandlerAppendBlock(h) ==
    /\ handlers[h].pc = "appendBlockInPage"
    /\ Len(blocks) < MaxBlocks
    /\ blocks' = Append(blocks, TaskBlock(handlers[h].journalDateStr, handlers[h].name,
                                          FALSE, handlers[h].origin))
    /\ UNCHANGED <<persons, journals, copies>>
    /\ Resolves(h, [handlers[h] EXCEPT !.pc = "task.addBlockTag", !.block = Len(blocks) + 1])

\* addBlockTag resolves
HandlerAddBlockTag(h) ==
    /\ handlers[h].pc = "task.addBlockTag"
    /\ blocks' = [blocks EXCEPT ![handlers[h].block].tagged = TRUE]
    /\ UNCHANGED <<persons, journals, copies>>
    /\ Resolves(h, Finished(h))

\* the pending call of a handler rejects: the handler catches it and ends
HandlerReject(h) ==
    /\ handlers[h].pc # "done"
    /\ faults < MaxFaults
    /\ faults' = faults + 1
    /\ UNCHANGED storeVars
    /\ SetHandler(h, Finished(h))

\* a later day begins
AdvanceTime(day) ==
    /\ DateLess(today, day)
    /\ today' = day
    /\ UNCHANGED <<queryVars, tz, called, arithVars, remindVars, parseVars, lifeVars>>

----------------------------------------------------------------------------
(* The people query *)

\* a scalar the store holds: undefined, a number, or a text
Undefined == [kind |-> "undefined", num |-> 0, text |-> <<>>]
NumberValue(n) == [kind |-> "number", num |-> n, text |-> <<>>]
StringValue(txt) == [kind |-> "string", num |-> 0, text |-> txt]

\* the record getBlock(id) resolves to; 0 and <<>> stand for an absent field
Entity(journalDay, journal_day, block_journal_day, title, name, content, value) ==
    [journalDay |-> journalDay, journal_day |-> journal_day,
     block_journal_day |-> block_journal_day, title |-> title, name |-> name,
     content |-> content, value |-> value]

NoEntity == Entity(0, 0, 0, <<>>, <<>>, <<>>, Undefined)

\* the raw value of a property of a page: undefined, a number, a text, or a
\* reference { id } to a record
RawUndefined == [kind |-> "undefined", num |-> 0, text |-> <<>>, ent |-> NoEntity]
RawNumber(n) == [kind |-> "number", num |-> n, text |-> <<>>, ent |-> NoEntity]
RawString(txt) == [kind |-> "string", num |-> 0, text |-> txt, ent |-> NoEntity]
RawRef(e) == [kind |-> "ref", num |-> 0, text |-> <<>>, ent |-> e]

IsTruthy(raw) ==
    \/ raw.kind = "ref"
    \/ raw.kind = "number" /\ raw.num # 0
    \/ raw.kind = "string" /\ raw.text # <<>>

\* parseInt of a text: the digits it begins with, after an optional sign
parseIntOfText(txt) ==
    IF txt # <<>> /\ txt[1].t = "num" THEN Number(txt[1].v)
    ELSE IF Len(txt) >= 2 /\ txt[1] = Chr("-") /\ txt[2].t = "num" THEN Number(-txt[2].v)
    ELSE NaN

\* a || b for texts
OrElse(a, b) == IF a # <<>> THEN a ELSE b

\* how getBlock ends for the given field of the i-th page: "ok", "null" when
\* it resolves to nothing, "reject" when it rejects
GetBlockOutcome(plan, i, field) ==
    IF plan # Null /\ plan.page = i /\ plan.field = field THEN plan.how ELSE "ok"

\* the birthday of a page; a rejection of getBlock is caught
resolveBirthday(raw, how) ==
    IF ~IsTruthy(raw) THEN Null
    ELSE IF raw.kind = "ref"
    THEN IF how # "ok" THEN Null
         ELSE IF raw.ent.journalDay # 0 THEN parseJournalDay(raw.ent.journalDay)
         ELSE IF raw.ent.journal_day # 0 THEN parseJournalDay(raw.ent.journal_day)
         ELSE IF raw.ent.block_journal_day # 0 THEN parseJournalDay(raw.ent.block_journal_day)
         ELSE IF raw.ent.title # <<>> THEN parseDate(raw.ent.title)
         ELSE IF raw.ent.name # <<>> THEN parseDate(raw.ent.name)
         ELSE Null
    ELSE IF raw.kind = "string" THEN parseDate(raw.text)
    ELSE parseJournalDay(raw.num)

\* the last contact of a page, when getBlock does not reject (a reference or a
\* text: the store of the model holds no number as a last contact)
resolveLastContact(raw, how) ==
    IF ~IsTruthy(raw) THEN Null
    ELSE IF raw.kind = "ref"
    THEN IF how # "ok" THEN Null
         ELSE IF raw.ent.journalDay # 0 THEN parseJournalDay(raw.ent.journalDay)
         ELSE IF raw.ent.journal_day # 0 THEN parseJournalDay(raw.ent.journal_day)
         ELSE parseDate(OrElse(raw.ent.name, raw.ent.title))
    ELSE parseDate(raw.text)

\* the contact frequency of a page, when getBlock does not reject
resolveContactFrequency(raw, how) ==
    IF ~IsTruthy(raw) THEN NullNumber
    ELSE IF raw.kind = "number" THEN Number(raw.num)
    ELSE IF raw.kind = "ref"
    THEN IF how # "ok" THEN NullNumber
         ELSE IF raw.ent.value.kind = "number" THEN Number(raw.ent.value.num)
         ELSE IF raw.ent.value.kind = "string" THEN parseIntOfText(raw.ent.value.text)
         ELSE parseIntOfText(OrElse(OrElse(raw.ent.title, raw.ent.content), <<Num(0, 1)>>))
    ELSE parseIntOfText(raw.text)

\* the relationship of a page, when getBlock does not reject; <<>> is null
resolveRelationship(raw, how) ==
    IF ~IsTruthy(raw) THEN <<>>
    ELSE IF raw.kind = "string" THEN raw.text
    ELSE IF raw.kind = "ref"
    THEN IF how # "ok" THEN <<>> ELSE OrElse(raw.ent.title, raw.ent.content)
    ELSE <<>>

\* the fields whose getBlock call has no try/catch of its own
UnguardedFields == {"last-contact", "contact-frequency", "relationship"}

Page(name, birthdayRaw, lastContactRaw, contactFreqRaw, relationshipRaw) ==
    [name |-> name, birthday |-> birthdayRaw, lastContact |-> lastContactRaw,
     contactFreq |-> contactFreqRaw, relationship |-> relationshipRaw]

RawOf(page, field) ==
    IF field = "birthday" THEN page.birthday
    ELSE IF field = "last-contact" THEN page.lastContact
    ELSE IF field = "contact-frequency" THEN page.contactFreq
    ELSE page.relationship

\* whether processing the i-th page throws out of the loop
Throws(page, plan, i) ==
    \E field \in UnguardedFields :
        RawOf(page, field).kind = "ref" /\ GetBlockOutcome(plan, i, field) = "reject"

\* the Person pushed for the i-th page
PersonOf(page, plan, i) ==
    [name |-> page.name,
     birthday |-> resolveBirthday(page.birthday, GetBlockOutcome(plan, i, "birthday")),
     lastContact |-> resolveLastContact(page.lastContact,
                                        GetBlockOutcome(plan, i, "last-contact")),
     contactFrequency |-> resolveContactFrequency(page.contactFreq,
                                                  GetBlockOutcome(plan, i, "contact-frequency")),
     relationship |-> resolveRelationship(page.relationship,
                                          GetBlockOutcome(plan, i, "relationship"))]

\* the loop of getAllPeople from the i-th page on: a rejection that is not
\* caught inside the loop ends it, and the people pushed so far are returned
RECURSIVE getAllPeopleFrom(_, _, _)
getAllPeopleFrom(ps, plan, i) ==
    IF i > Len(ps) THEN <<>>
    ELSE IF Throws(ps[i], plan, i) THEN <<>>
    ELSE <<PersonOf(ps[i], plan, i)>> \o getAllPeopleFrom(ps, plan, i + 1)

getAllPeople(ps, plan) == getAllPeopleFrom(ps, plan, 1)

----------------------------------------------------------------------------
(* Detection of a completed birthday task *)

\* The content of a block is a list of pieces of text. The straight
\* apostrophe (U+0027) and the curly one (U+2019) are pieces of their own.
StraightApostrophe == "'"
CurlyApostrophe == "U+2019"

\* content.includes(piecesSought)
Includes(content, sought) ==
    \E i \in 1..(Len(content) - Len(sought) + 1) :
        SubSeq(content, i, i + Len(sought) - 1) = sought

\* content.startsWith('DONE')
StartsWithDone(content) == content # <<>> /\ content[1] = "DONE"

isBirthdayTask(content) ==
    /\ Includes(content, <<StraightApostrophe, "s Birthday">>)
    /\ Includes(content, <<"[[">>)

\* the positions where /\[\[([^\]]+)\]\]['']s Birthday/ matches: both characters
\* of the class are the straight apostrophe
BirthdayMatches(content) ==
    {i \in 1..(Len(content) - 4) :
        /\ content[i] = "[["
        /\ content[i + 1] \notin {"[[", "]]", ""}
        /\ content[i + 2] = "]]"
        /\ content[i + 3] = StraightApostrophe
        /\ content[i + 4] = "s Birthday"}

\* the name matched, as <<name>>, or <<>> for null
extractBirthdayPersonName(content) ==
    IF BirthdayMatches(content) = {} THEN <<>>
    ELSE LET i == CHOOSE m \in BirthdayMatches(content) :
                      \A n \in BirthdayMatches(content) : m <= n
         IN <<content[i + 1]>>

\* the callback of logseq.DB.onChanged: the names it schedules
\* handleBirthdayTaskCompleted for, block by block
RECURSIVE onChanged(_)
onChanged(bs) ==
    IF bs = <<>> THEN <<>>
    ELSE (IF isBirthdayTask(Head(bs)) /\ StartsWithDone(Head(bs))
          THEN extractBirthdayPersonName(Head(bs))
          ELSE <<>>) \o onChanged(Tail(bs))

----------------------------------------------------------------------------
(* Inputs of the date utilities *)

TimeZones == {"UTC", "West", "DST"}

ArithMonths == {0, 1, 2, 4, 5, 9, 10, 11}
ArithDays == {1, 2, 28, 29, 30, 31}

DatesOf(ys, ms, ds) ==
    {[year |-> y, month |-> m, date |-> d] : y \in ys, m \in ms, d \in ds}

ValidDatesOf(ys, ms, ds) ==
    {x \in DatesOf(ys, ms, ds) : IsValidDate(x.year, x.month, x.date)}

TodayYears == FirstYear .. (FirstYear + MaxYears - 1)
Todays == ValidDatesOf(TodayYears, ArithMonths, ArithDays)
BirthYears == {1988, 1990}
Birthdays == ValidDatesOf(BirthYears, ArithMonths, ArithDays)

----------------------------------------------------------------------------
(* The date utilities applied to one birthday on one day *)

ArithUnused ==
    /\ birthday = Null
    /\ daysUntil = 0
    /\ nextBirthday = Null
    /\ age = 0

RemindUnused ==
    /\ people = <<>>
    /\ withinDays = 0
    /\ reminders = <<>>

ParseUnused ==
    /\ input = <<>>
    /\ native = Null
    /\ parsed = Null
    /\ formatted = <<>>

LifeUnused ==
    /\ persons = <<>>
    /\ journals = {}
    /\ copies = {}
    /\ blocks = <<>>
    /\ handlers = <<>>
    /\ result = Null
    /\ faults = 0

PeopleUnused ==
    /\ pages = <<>>
    /\ getBlockPlan = Null

FindUnused ==
    /\ obj = <<>>
    /\ baseName = ""
    /\ property = Null

ListenUnused ==
    /\ changed = <<>>
    /\ scheduled = <<>>

QueryUnused ==
    /\ PeopleUnused
    /\ contacts = <<>>
    /\ FindUnused
    /\ ListenUnused
    /\ check = Null
    /\ data = Null

InitArith ==
    /\ today \in Todays
    /\ tz \in TimeZones
    /\ birthday \in Birthdays
    /\ called = {}
    /\ daysUntil = 0
    /\ nextBirthday = Null
    /\ age = 0
    /\ RemindUnused
    /\ ParseUnused
    /\ LifeUnused
    /\ QueryUnused

GetDaysUntilBirthday ==
    /\ "getDaysUntilBirthday" \notin called
    /\ daysUntil' = getDaysUntilBirthday(birthday)
    /\ called' = called \cup {"getDaysUntilBirthday"}
    /\ UNCHANGED <<queryVars, today, tz, birthday, nextBirthday, age, remindVars, parseVars, lifeVars>>

GetNextBirthdayDate ==
    /\ "getNextBirthdayDate" \notin called
    /\ nextBirthday' = getNextBirthdayDate(birthday)
    /\ called' = called \cup {"getNextBirthdayDate"}
    /\ UNCHANGED <<queryVars, today, tz, birthday, daysUntil, age, remindVars, parseVars, lifeVars>>

CalculateAge ==
    /\ "calculateAge" \notin called
    /\ age' = calculateAge(birthday)
    /\ called' = called \cup {"calculateAge"}
    /\ UNCHANGED <<queryVars, today, tz, birthday, daysUntil, nextBirthday, remindVars, parseVars, lifeVars>>

NextArith == GetDaysUntilBirthday \/ GetNextBirthdayDate \/ CalculateAge

SpecArith == InitArith /\ [][NextArith]_vars

----------------------------------------------------------------------------
(* Claims about the date utilities (checked under SpecArith) *)

\* the occurrence of a birthday in year y: the day of year y with the birthday's
\* month and day of the month; for a 29 February birthday in a year without
\* that day, 1 March (the date the code itself takes for the current year)
Occurrence(y, b) == MakeDate(y, getMonth(b), getDate(b))

DaysFromToday(date) ==
    DayNumber(date.year, date.month, date.date)
        - DayNumber(today.year, today.month, today.date)

\* the number of calendar days from today to the nearest occurrence of b,
\* today or later
CalendarDaysUntil(b) ==
    IF DateLess(Occurrence(today.year, b), today)
    THEN DaysFromToday(Occurrence(today.year + 1, b))
    ELSE DaysFromToday(Occurrence(today.year, b))

Tomorrow == FromDayNumber(DayNumber(today.year, today.month, today.date) + 1)
Yesterday == FromDayNumber(DayNumber(today.year, today.month, today.date) - 1)

\* C6: for every birthday and every today, getDaysUntilBirthday returns n >= 0,
\* the number of calendar days from today to the nearest occurrence of the
\* birthday's (month, day) on or after today: n = 0 exactly when that
\* occurrence is today, n = 1 when it is tomorrow, and n is 364 or 365 when
\* the birthday was yesterday.
C6_DaysUntilIsCalendarDistance ==
    "getDaysUntilBirthday" \in called =>
        /\ daysUntil >= 0
        /\ daysUntil = CalendarDaysUntil(birthday)
        /\ (daysUntil = 0 <=> Occurrence(today.year, birthday) = today)
        /\ (Occurrence(Tomorrow.year, birthday) = Tomorrow => daysUntil = 1)
        /\ (Occurrence(Yesterday.year, birthday) = Yesterday => daysUntil \in {364, 365})

SameMonthDay(a, b) == a.month = b.month /\ a.date = b.date

\* C7: for every birthday and every today, getNextBirthdayDate returns a date
\* strictly after today: this year's occurrence if it is strictly after today,
\* otherwise next year's; when the birthday's month/day equal today's, it
\* returns next year's occurrence while getDaysUntilBirthday returns 0.
C7_NextBirthdayStrictlyFuture ==
    "getNextBirthdayDate" \in called =>
        /\ DateLess(today, nextBirthday)
        /\ nextBirthday =
               IF DateLess(today, Occurrence(today.year, birthday))
               THEN Occurrence(today.year, birthday)
               ELSE Occurrence(today.year + 1, birthday)
        /\ (SameMonthDay(today, birthday) /\ "getDaysUntilBirthday" \in called =>
               /\ nextBirthday = Occurrence(today.year + 1, birthday)
               /\ daysUntil = 0)

\* C24: the date getNextBirthdayDate returns has the birthday's month and day
\* whenever the year returned contains that day (29 February in a leap year),
\* and differs from it only when that year does not contain the day.
C24_NextBirthdayKeepsMonthDay ==
    "getNextBirthdayDate" \in called =>
        (IsValidDate(nextBirthday.year, birthday.month, birthday.date)
            => SameMonthDay(nextBirthday, birthday))

\* C8: for every birth date b and today t with b <= t, calculateAge(b) is
\* t.year - b.year, minus 1 if (t.month, t.day) is lexicographically before
\* (b.month, b.day); born 1990-06-02 gives 33 on 2024-06-01 and 34 on 2024-06-02.
C8_AgeIsFullYears ==
    ("calculateAge" \in called /\ ~DateLess(today, birthday)) =>
        /\ age = (today.year - birthday.year)
                 - (IF today.month * 32 + today.date < birthday.month * 32 + birthday.date
                    THEN 1 ELSE 0)
        /\ (birthday = [year |-> 1990, month |-> 5, date |-> 2] =>
               /\ (today = [year |-> 2024, month |-> 5, date |-> 1] => age = 33)
               /\ (today = [year |-> 2024, month |-> 5, date |-> 2] => age = 34))

C8_Witness ==
    /\ "calculateAge" \in called
    /\ birthday = [year |-> 1990, month |-> 5, date |-> 2]
    /\ today = [year |-> 2024, month |-> 5, date |-> 1]
    /\ age = 33

----------------------------------------------------------------------------
(* The reminder derivation applied to one list of people on one day *)

PersonNames == <<"Alice", "Bob", "Carol", "Dave", "Erin">>

Date(y, m, d) == [year |-> y, month |-> m, date |-> d]

RemindTodays == {Date(FirstYear + 1, 5, 1), Date(FirstYear, 11, 28), Date(FirstYear + 1, 1, 28)}

\* birthdays today, tomorrow, yesterday, in a week, in a month, early next
\* year and on 29 February (relative to the first of June), and no birthday
RemindBirthdays ==
    {Null, Date(1990, 5, 1), Date(1990, 5, 2), Date(1988, 5, 1), Date(1990, 4, 31),
     Date(1988, 5, 8), Date(1990, 0, 1), Date(1988, 1, 29)}

Windows == {0, 7, 30}

PeopleLists ==
    UNION {{[i \in 1..n |-> [name |-> PersonNames[i], birthday |-> bs[i]]] :
               bs \in [1..n -> RemindBirthdays]} : n \in 0..MaxPeople}

InitRemind ==
    /\ today \in RemindTodays
    /\ tz \in TimeZones
    /\ called = {}
    /\ people \in PeopleLists
    /\ withinDays \in Windows
    /\ reminders = <<>>
    /\ ArithUnused
    /\ ParseUnused
    /\ LifeUnused
    /\ QueryUnused

GetUpcomingBirthdays ==
    /\ "getUpcomingBirthdays" \notin called
    /\ reminders' = getUpcomingBirthdays(people, withinDays)
    /\ called' = called \cup {"getUpcomingBirthdays"}
    /\ UNCHANGED <<queryVars, envVars, arithVars, parseVars, lifeVars, people, withinDays>>

NextRemind == GetUpcomingBirthdays

SpecRemind == InitRemind /\ [][NextRemind]_vars

----------------------------------------------------------------------------
(* Claims about the reminder derivation (checked under SpecRemind) *)

\* the positions of the people that have a birthday within the window
Upcoming == {i \in 1..Len(people) :
                /\ people[i].birthday # Null
                /\ getDaysUntilBirthday(people[i].birthday) <= withinDays}

\* the position in the input of the person of the j-th reminder
InputPosition(j) == CHOOSE i \in 1..Len(people) : people[i] = reminders[j].person

\* C9: for every list of people and every windowDays, getUpcomingBirthdays
\* returns exactly the people that have a birthday and daysUntil <= windowDays,
\* each once, ordered ascending by daysUntil, with entries of equal daysUntil
\* in their input order.
C9_UpcomingFilteredAndSorted ==
    "getUpcomingBirthdays" \in called =>
        /\ Len(reminders) = Cardinality(Upcoming)
        /\ \A i \in Upcoming : \E j \in 1..Len(reminders) : reminders[j].person = people[i]
        /\ \A j \in 1..Len(reminders) :
              /\ \E i \in Upcoming : reminders[j].person = people[i]
              /\ reminders[j].daysUntil = getDaysUntilBirthday(reminders[j].person.birthday)
        /\ \A j, k \in 1..Len(reminders) :
              j < k => \/ reminders[j].daysUntil < reminders[k].daysUntil
                       \/ /\ reminders[j].daysUntil = reminders[k].daysUntil
                          /\ InputPosition(j) < InputPosition(k)

\* a list where one person is filtered out, the two reminded tie in daysUntil
\* with different birthdays, and keep their input order
C9_Witness ==
    /\ "getUpcomingBirthdays" \in called
    /\ Len(people) = 3
    /\ people[1].birthday # Null
    /\ 1 \notin Upcoming
    /\ Len(reminders) = 2
    /\ reminders[1].daysUntil = reminders[2].daysUntil
    /\ reminders[1].person.birthday # reminders[2].person.birthday
    /\ reminders[1].person = people[2]
    /\ reminders[2].person = people[3]

\* C10: in every BirthdayReminder produced by getUpcomingBirthdays, age equals
\* age(birthday) when daysUntil is not 0, and age(birthday) + 1 when
\* daysUntil = 0.
C10_AgePlusOneOnlyToday ==
    "getUpcomingBirthdays" \in called =>
        \A j \in 1..Len(reminders) :
            reminders[j].age =
                IF reminders[j].daysUntil = 0
                THEN calculateAge(reminders[j].person.birthday) + 1
                ELSE calculateAge(reminders[j].person.birthday)

\* C10 as amended: age equals age(birthday) when daysUntil = 0 (the birthday
\* is today and the age has been reached), and age(birthday) + 1 otherwise
\* (the age the person is about to turn).
C10_AgePlusOneUnlessToday ==
    "getUpcomingBirthdays" \in called =>
        \A j \in 1..Len(reminders) :
            /\ reminders[j].daysUntil = 0 =>
                   reminders[j].age = calculateAge(reminders[j].person.birthday)
            /\ reminders[j].daysUntil # 0 =>
                   reminders[j].age = calculateAge(reminders[j].person.birthday) + 1

C10_Witness ==
    /\ "getUpcomingBirthdays" \in called
    /\ Len(reminders) >= 2
    /\ reminders[1].daysUntil = 0
    /\ reminders[1].age = today.year - reminders[1].person.birthday.year
    /\ reminders[2].daysUntil > 0
    /\ reminders[2].age = today.year - reminders[2].person.birthday.year

\* the day that is n days from today
DaysFromNow(n) == FromDayNumber(DayNumber(today.year, today.month, today.date) + n)

\* C11: in every BirthdayReminder produced by getUpcomingBirthdays, age is the
\* age the person turns on the reported occurrence: the year of the day that
\* is daysUntil days from today, minus the birth year, whether the occurrence
\* is today, later this year, or next year.
C11_AgeTurnedOnOccurrence ==
    "getUpcomingBirthdays" \in called =>
        \A j \in 1..Len(reminders) :
            reminders[j].age =
                DaysFromNow(reminders[j].daysUntil).year - reminders[j].person.birthday.year

\* a birthday early next year, reported in the last days of this year
C11_Witness ==
    /\ "getUpcomingBirthdays" \in called
    /\ Len(reminders) >= 1
    /\ reminders[1].daysUntil > 0
    /\ DaysFromNow(reminders[1].daysUntil).year = today.year + 1
    /\ reminders[1].age = today.year + 1 - reminders[1].person.birthday.year

----------------------------------------------------------------------------
(* The contact reminders derived from one list of people on one day *)

\* the first of June, and a day shortly after daylight saving time begins
ContactTodays == {Date(FirstYear + 1, 5, 1), Date(FirstYear + 1, 3, 10)}

\* a Person as far as getPeopleToContact reads it
Contact(lastContact, contactFrequency) ==
    [lastContact |-> lastContact, contactFrequency |-> contactFrequency]

\* relative to the first of June: never contacted, contacted 20 and 5 days
\* ago with cadence 14, 20 days ago with cadence 6, and in March; no cadence,
\* a negative one, and one that is not a number
ContactKinds ==
    {Contact(Null, Number(14)),
     Contact(Date(FirstYear + 1, 4, 12), Number(14)),
     Contact(Date(FirstYear + 1, 4, 27), Number(14)),
     Contact(Date(FirstYear + 1, 4, 12), Number(6)),
     Contact(Date(FirstYear + 1, 2, 21), Number(14)),
     Contact(Null, NullNumber),
     Contact(Null, Number(-5)),
     Contact(Date(FirstYear + 1, 4, 27), NaN)}

ContactLists ==
    UNION {{[i \in 1..n |-> [name |-> PersonNames[i], birthday |-> Null,
                              lastContact |-> ks[i].lastContact,
                              contactFrequency |-> ks[i].contactFrequency]] :
               ks \in [1..n -> ContactKinds]} : n \in 0..MaxPeople}

InitContact ==
    /\ today \in ContactTodays
    /\ tz \in TimeZones
    /\ called = {}
    /\ people \in ContactLists
    /\ contacts = <<>>
    /\ withinDays = 0
    /\ reminders = <<>>
    /\ ArithUnused
    /\ ParseUnused
    /\ LifeUnused
    /\ PeopleUnused
    /\ FindUnused
    /\ ListenUnused
    /\ check = Null
    /\ data = Null

GetPeopleToContact ==
    /\ "getPeopleToContact" \notin called
    /\ contacts' = getPeopleToContact(people)
    /\ called' = called \cup {"getPeopleToContact"}
    /\ UNCHANGED <<envVars, arithVars, remindVars, parseVars, lifeVars, pages, getBlockPlan,
                   obj, baseName, property, changed, scheduled, check, data>>

NextContact == GetPeopleToContact

SpecContact == InitContact /\ [][NextContact]_vars

----------------------------------------------------------------------------
(* Claims about the contact reminders (checked under SpecContact) *)

\* the number of calendar days from a date to today
CalendarDaysSince(date) ==
    DayNumber(today.year, today.month, today.date) - DayNumber(date.year, date.month, date.date)

\* a person has a configured cadence: a number other than 0
HasCadence(person) == IsTruthyNumber(person.contactFrequency)

\* the daysOverdue the specification gives a person with a cadence
ExpectedOverdue(person) ==
    IF person.lastContact = Null THEN person.contactFrequency.v
    ELSE CalendarDaysSince(person.lastContact) - person.contactFrequency.v

\* the positions of the people due for contact
Due == {i \in 1..Len(people) :
           /\ HasCadence(people[i])
           /\ \/ people[i].lastContact = Null
              \/ ExpectedOverdue(people[i]) >= 0}

\* the position in the input of the person of the j-th contact reminder
ContactPosition(j) == CHOOSE i \in 1..Len(people) : people[i] = contacts[j].person

\* C12: getPeopleToContact contains a person iff they have a configured
\* cadence c and either lastContact is unknown or daysSince(lastContact) - c
\* >= 0; daysOverdue is c when lastContact is unknown and
\* daysSince(lastContact) - c otherwise, so every listed daysOverdue is >= 0.
C12_ContactsDueWithOverdue ==
    "getPeopleToContact" \in called =>
        /\ Len(contacts) = Cardinality(Due)
        /\ \A i \in Due : \E j \in 1..Len(contacts) : contacts[j].person = people[i]
        /\ \A j \in 1..Len(contacts) :
              /\ ContactPosition(j) \in Due
              /\ contacts[j].daysOverdue = ExpectedOverdue(contacts[j].person)
              /\ contacts[j].daysOverdue >= 0

\* C13: the list returned by getPeopleToContact is ordered descending by
\* daysOverdue, with entries of equal daysOverdue in their input order, for
\* every input including a mix of never-contacted and contacted people.
C13_ContactsMostOverdueFirst ==
    "getPeopleToContact" \in called =>
        \A j, k \in 1..Len(contacts) :
            j < k => \/ contacts[j].daysOverdue > contacts[k].daysOverdue
                     \/ /\ contacts[j].daysOverdue = contacts[k].daysOverdue
                        /\ ContactPosition(j) < ContactPosition(k)

\* a contacted person goes before two that tie, one never contacted and one
\* contacted, which keep their input order
C13_Witness ==
    /\ "getPeopleToContact" \in called
    /\ Len(people) = 3
    /\ Len(contacts) = 3
    /\ contacts[1].person = people[3]
    /\ contacts[2].person = people[1]
    /\ contacts[3].person = people[2]
    /\ contacts[1].daysOverdue > contacts[2].daysOverdue
    /\ contacts[2].daysOverdue = contacts[3].daysOverdue
    /\ contacts[2].person.lastContact = Null
    /\ contacts[3].person.lastContact # Null

----------------------------------------------------------------------------
(* The people query applied to the pages of the store *)

PageNames == <<"Alice", "Bob">>

\* date texts, a text that is no date, and texts of numbers
TextMay12 == formatDateForLogseq(Date(FirstYear + 1, 4, 12))
TextMay27 == formatDateForLogseq(Date(FirstYear + 1, 4, 27))
TextFriend == <<Word("friend", "lower")>>
Text14 == <<Num(14, 2)>>
Text7 == <<Num(7, 1)>>

DayJan5 == journalDayOf(Date(1990, 0, 5))

\* records a date property refers to: with each journal-day field, with a
\* title and a name that differ, with one of them, and with a title that is
\* no date
DateEntities ==
    {Entity(DayJan5, 0, 0, TextMay27, <<>>, <<>>, Undefined),
     Entity(0, DayJan5, 0, <<>>, TextMay27, <<>>, Undefined),
     Entity(0, 0, DayJan5, <<>>, <<>>, <<>>, Undefined),
     Entity(0, 0, DayJan5, TextMay27, <<>>, <<>>, Undefined),
     Entity(0, 0, 0, TextMay12, TextMay27, <<>>, Undefined),
     Entity(0, 0, 0, <<>>, TextMay27, <<>>, Undefined),
     Entity(0, 0, 0, TextFriend, TextMay27, <<>>, Undefined)}

BirthdayRaws ==
    {RawString(TextMay12), RawNumber(DayJan5)} \cup {RawRef(e) : e \in DateEntities}

LastContactRaws == {RawString(TextMay12)} \cup {RawRef(e) : e \in DateEntities}

\* numbers (also 0 and a negative one), texts of a number or not, and
\* references to a record with a typed value, with a title only, or empty
ContactFreqRaws ==
    {RawNumber(14), RawNumber(0), RawNumber(-5), RawString(Text14), RawString(TextFriend),
     RawRef(Entity(0, 0, 0, <<>>, <<>>, <<>>, NumberValue(14))),
     RawRef(Entity(0, 0, 0, <<>>, <<>>, <<>>, StringValue(Text7))),
     RawRef(Entity(0, 0, 0, Text14, <<>>, <<>>, Undefined)),
     RawRef(Entity(0, 0, 0, TextFriend, <<>>, <<>>, Undefined)),
     RawRef(NoEntity)}

RelationshipRaws ==
    {RawString(TextFriend), RawRef(Entity(0, 0, 0, TextFriend, <<>>, <<>>, Undefined))}

\* the properties of a page: none, one of them, or all four as references
PageProperties ==
    {Page("", RawUndefined, RawUndefined, RawUndefined, RawUndefined)}
    \cup {Page("", b, RawUndefined, RawUndefined, RawUndefined) : b \in BirthdayRaws}
    \cup {Page("", RawUndefined, l, RawUndefined, RawUndefined) : l \in LastContactRaws}
    \cup {Page("", RawUndefined, RawUndefined, c, RawUndefined) : c \in ContactFreqRaws}
    \cup {Page("", RawUndefined, RawUndefined, RawUndefined, r) : r \in RelationshipRaws}
    \cup {Page("", RawRef(Entity(DayJan5, 0, 0, <<>>, <<>>, <<>>, Undefined)),
                   RawRef(Entity(0, 0, 0, <<>>, TextMay27, <<>>, Undefined)),
                   RawRef(Entity(0, 0, 0, <<>>, <<>>, <<>>, NumberValue(14))),
                   RawRef(Entity(0, 0, 0, TextFriend, <<>>, <<>>, Undefined)))}

PageLists ==
    UNION {{[i \in 1..n |-> [ps[i] EXCEPT !.name = PageNames[i]]] :
               ps \in [1..n -> PageProperties]} : n \in 0..Len(PageNames)}

Fields == {"birthday"} \cup UnguardedFields

\* no getBlock call fails, or the one for a field of a page does
GetBlockPlans ==
    {Null} \cup {[page |-> i, field |-> f, how |-> h] :
                    i \in 1..Len(PageNames), f \in Fields, h \in {"null", "reject"}}

InitPeople ==
    /\ today = Date(FirstYear + 1, 5, 1)
    /\ tz \in {"UTC", "West"}
    /\ called = {}
    /\ pages \in PageLists
    /\ getBlockPlan \in GetBlockPlans
    /\ people = <<>>
    /\ withinDays = 0
    /\ reminders = <<>>
    /\ contacts = <<>>
    /\ ArithUnused
    /\ ParseUnused
    /\ LifeUnused
    /\ FindUnused
    /\ ListenUnused
    /\ check = Null
    /\ data = Null

GetAllPeople ==
    /\ "getAllPeople" \notin called
    /\ people' = getAllPeople(pages, getBlockPlan)
    /\ called' = called \cup {"getAllPeople"}
    /\ UNCHANGED <<envVars, arithVars, withinDays, reminders, parseVars, lifeVars, pages,
                   getBlockPlan, contacts, obj, baseName, property, changed, scheduled, check, data>>

NextPeople == GetAllPeople

SpecPeople == InitPeople /\ [][NextPeople]_vars

----------------------------------------------------------------------------
(* Claims about the people query (checked under SpecPeople) *)

\* the getBlock call for the field of the i-th page is made and fails
Failed(i, field) ==
    /\ getBlockPlan # Null
    /\ getBlockPlan.page = i
    /\ getBlockPlan.field = field
    /\ RawOf(pages[i], field).kind = "ref"

\* the Person of the i-th page when every reference resolves
Resolved(i) == PersonOf(pages[i], Null, i)

\* C14: if resolving a reference fails (getBlock rejects or returns nothing)
\* for one field of one record, only that field degrades to unknown: that
\* record and every other fetched record still appear in the returned list.
C14_FailedReferenceDegradesOneField ==
    "getAllPeople" \in called =>
        /\ Len(people) = Len(pages)
        /\ \A i \in 1..Len(pages) :
              /\ people[i].name = pages[i].name
              /\ people[i].birthday =
                     IF Failed(i, "birthday") THEN Null ELSE Resolved(i).birthday
              /\ people[i].lastContact =
                     IF Failed(i, "last-contact") THEN Null ELSE Resolved(i).lastContact
              /\ people[i].contactFrequency =
                     IF Failed(i, "contact-frequency") THEN NullNumber
                     ELSE Resolved(i).contactFrequency
              /\ people[i].relationship =
                     IF Failed(i, "relationship") THEN <<>> ELSE Resolved(i).relationship

\* the date the first present field of a referenced record gives, in the order
\* journalDay, journal-day, :block/journal-day, title, name
FirstPresentDate(e) ==
    IF e.journalDay # 0 THEN parseJournalDay(e.journalDay)
    ELSE IF e.journal_day # 0 THEN parseJournalDay(e.journal_day)
    ELSE IF e.block_journal_day # 0 THEN parseJournalDay(e.block_journal_day)
    ELSE IF e.title # <<>> THEN parseDate(e.title)
    ELSE IF e.name # <<>> THEN parseDate(e.name)
    ELSE Null

\* C19: when a date-valued property holds a reference, the referenced
\* record's fields are consulted in the order journalDay, journal-day,
\* :block/journal-day, title, name, and the first one present determines the
\* date, for both the birthday and the last-contact field.
C19_DateReferenceFieldOrder ==
    "getAllPeople" \in called =>
        \A i \in 1..Len(people) :
            /\ (pages[i].birthday.kind = "ref" /\ ~Failed(i, "birthday")) =>
                   people[i].birthday = FirstPresentDate(pages[i].birthday.ent)
            /\ (pages[i].lastContact.kind = "ref" /\ ~Failed(i, "last-contact")) =>
                   people[i].lastContact = FirstPresentDate(pages[i].lastContact.ent)

\* C20: every Person returned by getAllPeople has contactFrequency either
\* null or a positive integer, for every raw contact-frequency value the
\* store can hold.
C20_ContactFrequencyPositive ==
    "getAllPeople" \in called =>
        \A i \in 1..Len(people) :
            \/ people[i].contactFrequency = NullNumber
            \/ /\ people[i].contactFrequency.kind = "number"
               /\ people[i].contactFrequency.v > 0

----------------------------------------------------------------------------
(* The change listener applied to one notification *)

\* birthday tasks in either state with either apostrophe, and contents that
\* are close to one: no apostrophe, no brackets, or brackets around other text
Contents ==
    {<<state, " ", "[[", name, "]]", apostrophe, "s Birthday", "!">> :
        state \in {"DONE", "TODO"}, name \in {"Alice", "Bob"},
        apostrophe \in {StraightApostrophe, CurlyApostrophe, " "}}
    \cup {<<"DONE", " ", "Alice", StraightApostrophe, "s Birthday", "!">>,
          <<"DONE", " ", "[[", "cake", "]]", " for ", "Bob", StraightApostrophe, "s Birthday">>,
          <<"DONE", " ", "[[", "Alice", "]]", StraightApostrophe, "s Party">>,
          <<"[[", "Alice", "]]", StraightApostrophe, "s Birthday", " is ", "DONE">>}

ChangeLists == UNION {[1..n -> Contents] : n \in 0..2}

InitListen ==
    /\ today = Date(FirstYear + 1, 5, 1)
    /\ tz = "UTC"
    /\ called = {}
    /\ changed \in ChangeLists
    /\ scheduled = <<>>
    /\ ArithUnused
    /\ RemindUnused
    /\ ParseUnused
    /\ LifeUnused
    /\ PeopleUnused
    /\ FindUnused
    /\ contacts = <<>>
    /\ check = Null
    /\ data = Null

OnChanged ==
    /\ "onChanged" \notin called
    /\ scheduled' = onChanged(changed)
    /\ called' = called \cup {"onChanged"}
    /\ UNCHANGED <<envVars, arithVars, remindVars, parseVars, lifeVars, pages, getBlockPlan,
                   contacts, obj, baseName, property, changed, check, data>>

NextListen == OnChanged

SpecListen == InitListen /\ [][NextListen]_vars

----------------------------------------------------------------------------
(* Claims about the change listener (checked under SpecListen) *)

\* a content has [[<Name>]] followed by 's Birthday, with either apostrophe
NamedBirthday(content) ==
    {i \in 1..(Len(content) - 4) :
        /\ content[i] = "[["
        /\ content[i + 1] \notin {"[[", "]]", ""}
        /\ content[i + 2] = "]]"
        /\ content[i + 3] \in {StraightApostrophe, CurlyApostrophe}
        /\ content[i + 4] = "s Birthday"}

\* the names rescheduling is to be triggered for, block by block
RECURSIVE ToReschedule(_)
ToReschedule(bs) ==
    IF bs = <<>> THEN <<>>
    ELSE (IF StartsWithDone(Head(bs)) /\ NamedBirthday(Head(bs)) # {}
          THEN <<Head(bs)[(CHOOSE m \in NamedBirthday(Head(bs)) :
                              \A n \in NamedBirthday(Head(bs)) : m <= n) + 1]>>
          ELSE <<>>) \o ToReschedule(Tail(bs))

\* C15: a notification carrying a done task whose content contains [[<Name>]]
\* followed by 's Birthday triggers rescheduling for <Name> with the straight
\* apostrophe and with the curly one; a content that does not match, or is
\* not in the done state, triggers nothing.
C15_BothApostrophesTrigger ==
    "onChanged" \in called => scheduled = ToReschedule(changed)

----------------------------------------------------------------------------
(* The birthday parser applied to one text *)

YearTokens == {Num(50, 4), Num(500, 4), Num(1988, 4), Num(2020, 4), Num(2023, 4)}

NumberValues == {0, 1, 4, 12, 13, 15, 29, 30, 31, 32}

\* one or two digits: every value with two digits, 1..9 also with one
NumberTokens ==
    {Num(v, 2) : v \in NumberValues} \cup {Num(v, 1) : v \in {x \in NumberValues : 1 <= x /\ x < 10}}

Casings == {"lower", "Title", "UPPER"}

WordTokens == {Word(w, c) : w \in DOMAIN months, c \in Casings} \cup {Word("foo", "lower")}

IsoInputs == {<<y, Chr("-"), a, Chr("-"), b>> : y \in YearTokens, a \in NumberTokens, b \in NumberTokens}

TripleInputs ==
    {<<a, Chr(s1), b, Chr(s2), y>> :
        a \in NumberTokens, b \in NumberTokens, y \in YearTokens,
        s1 \in {"/", "-", "."}, s2 \in {"/", "-", "."}}

DayMonthYearInputs ==
    {<<d, Chr(" "), w, Chr(" "), y>> : d \in NumberTokens, w \in WordTokens, y \in YearTokens}

MonthDayYearInputs ==
    {<<w, Chr(" "), d, Chr(" "), y>> : d \in NumberTokens, w \in WordTokens, y \in YearTokens}
    \cup {<<w, Chr(" "), d, Chr(","), Chr(" "), y>> :
             d \in NumberTokens, w \in WordTokens, y \in YearTokens}

YearMonthDayInputs ==
    {<<y, Chr(" "), w, Chr(" "), d>> : d \in NumberTokens, w \in WordTokens, y \in YearTokens}

Inputs ==
    {<<>>} \cup IsoInputs \cup TripleInputs \cup DayMonthYearInputs
           \cup MonthDayYearInputs \cup YearMonthDayInputs

\* whether parseBirthdayInput leaves the text to the engine's own parser
ReachesFallback(txt) == txt # <<>> /\ parseBirthdayInput(txt, Null) = Null

\* how the engine reads a text in no standard format is left to the engine: an
\* Invalid Date, or some date
NativeResults(txt) ==
    IF ReachesFallback(txt) THEN {Null, [year |-> 2001, month |-> 0, date |-> 1]} ELSE {Null}

InitParse ==
    /\ today = [year |-> FirstYear + 1, month |-> 5, date |-> 1]
    /\ tz \in TimeZones
    /\ called = {}
    /\ input \in Inputs
    /\ native \in NativeResults(input)
    /\ parsed = Null
    /\ formatted = <<>>
    /\ ArithUnused
    /\ RemindUnused
    /\ LifeUnused
    /\ QueryUnused

ParseBirthdayInput ==
    /\ "parseBirthdayInput" \notin called
    /\ parsed' = parseBirthdayInput(input, native)
    /\ called' = called \cup {"parseBirthdayInput"}
    /\ UNCHANGED <<queryVars, envVars, arithVars, remindVars, lifeVars, input, native, formatted>>

\* getFormData: a parsed birthday is formatted for the store
FormatDateForLogseq ==
    /\ "parseBirthdayInput" \in called
    /\ "formatDateForLogseq" \notin called
    /\ parsed # Null
    /\ formatted' = formatDateForLogseq(parsed)
    /\ called' = called \cup {"formatDateForLogseq"}
    /\ UNCHANGED <<queryVars, envVars, arithVars, remindVars, lifeVars, input, native, parsed>>

NextParse == ParseBirthdayInput \/ FormatDateForLogseq

SpecParse == InitParse /\ [][NextParse]_vars

----------------------------------------------------------------------------
(* Claims about the birthday parser (checked under SpecParse) *)

KnownMonth(tok) == tok.t = "word" /\ tok.w \in DOMAIN months

\* the year a four-digit year text stands for in the Date constructor
ConstructorYear(tok) == IF tok.v <= 99 THEN 1900 + tok.v ELSE tok.v

\* the dates a text may be read as: [year, month (0-based), date], valid or not
Readings(txt) ==
    IF isoMatch(txt)
        THEN {[year |-> ConstructorYear(txt[1]), month |-> txt[3].v - 1, date |-> txt[5].v]}
    ELSE IF euroMatch(txt)
        THEN {[year |-> ConstructorYear(txt[5]), month |-> txt[3].v - 1, date |-> txt[1].v],
              [year |-> ConstructorYear(txt[5]), month |-> txt[1].v - 1, date |-> txt[3].v]}
    ELSE IF dayMonthYearMatch(txt) /\ KnownMonth(txt[3])
        THEN {[year |-> ConstructorYear(txt[5]), month |-> months[txt[3].w], date |-> txt[1].v]}
    ELSE IF monthDayYearMatch(txt) /\ KnownMonth(txt[1])
        THEN {[year |-> ConstructorYear(txt[Len(txt)]), month |-> months[txt[1].w], date |-> txt[3].v]}
    ELSE IF yearMonthDayMatch(txt) /\ KnownMonth(txt[3])
        THEN {[year |-> ConstructorYear(txt[1]), month |-> months[txt[3].w], date |-> txt[5].v]}
    ELSE {}

ValidReadings(txt) == {r \in Readings(txt) : IsValidDate(r.year, r.month, r.date)}

Text_13_13_2020 == <<Num(13, 2), Chr("/"), Num(13, 2), Chr("/"), Num(2020, 4)>>

\* C3: parseBirthdayInput returns null for every text whose numbers do not form
\* a valid calendar date (month outside 1..12, or day outside the month's
\* length), in every format branch; parse("13/13/2020") is null, and no branch
\* returns a date other than the one written.
C3_InvalidDatesRejected ==
    "parseBirthdayInput" \in called =>
        /\ (Readings(input) # {} /\ ValidReadings(input) = {}) => parsed = Null
        /\ input = Text_13_13_2020 => parsed = Null
        /\ (Readings(input) # {} /\ parsed # Null) => parsed \in Readings(input)

\* C4: for A/B/YYYY or A-B-YYYY with 1 <= A <= 12 and 13 <= B <= 31 the parser
\* reads A as the month and B as the day; with A > 12 it reads B as the month
\* and A as the day; with both <= 12 it reads day-month-year.
C4_SlashDisambiguation ==
    ("parseBirthdayInput" \in called /\ usMatch(input)) =>
        LET A == input[1].v
            B == input[3].v
            Y == ConstructorYear(input[5])
        IN /\ (1 <= A /\ A <= 12 /\ 13 <= B /\ B <= 31 /\ IsValidDate(Y, A - 1, B)) =>
                  parsed = [year |-> Y, month |-> A - 1, date |-> B]
           /\ (A > 12 /\ IsValidDate(Y, B - 1, A)) =>
                  parsed = [year |-> Y, month |-> B - 1, date |-> A]
           /\ (1 <= A /\ A <= 12 /\ 1 <= B /\ B <= 12) =>
                  parsed = [year |-> Y, month |-> B - 1, date |-> A]

\* the date (year as written) of a text in one of the supported forms:
\* y-m-d, d/m/y, d-m-y, d.m.y, d Month y, Month d y, Month d, y and y Month d
WrittenDate(txt) ==
    IF isoMatch(txt)
        THEN [year |-> txt[1].v, month |-> txt[3].v - 1, date |-> txt[5].v]
    ELSE IF euroMatch(txt)
        THEN [year |-> txt[5].v, month |-> txt[3].v - 1, date |-> txt[1].v]
    ELSE IF dayMonthYearMatch(txt)
        THEN [year |-> txt[5].v, month |-> months[txt[3].w], date |-> txt[1].v]
    ELSE IF monthDayYearMatch(txt)
        THEN [year |-> txt[Len(txt)].v, month |-> months[txt[1].w], date |-> txt[3].v]
    ELSE [year |-> txt[1].v, month |-> months[txt[3].w], date |-> txt[5].v]

SupportedForm(txt) ==
    \/ isoMatch(txt)
    \/ euroMatch(txt) /\ txt[2].t = txt[4].t
    \/ dayMonthYearMatch(txt) /\ KnownMonth(txt[3])
    \/ monthDayYearMatch(txt) /\ KnownMonth(txt[1])
    \/ yearMonthDayMatch(txt) /\ KnownMonth(txt[3])

WritesValidDate(txt) ==
    /\ txt # <<>>
    /\ SupportedForm(txt)
    /\ IsValidDate(WrittenDate(txt).year, WrittenDate(txt).month, WrittenDate(txt).date)

\* YYYY-MM-DD with two-digit month and day
PaddedIso(txt) == isoMatch(txt) /\ txt[3].n = 2 /\ txt[5].n = 2

\* C5: for every valid calendar date (y, m, d), each supported textual form of
\* it parses to exactly (y, m, d), with the month name in any letter case, full
\* or abbreviated; parse followed by formatDateForLogseq gives back every
\* valid ISO string.
C5_SupportedFormsParseExactly ==
    ("parseBirthdayInput" \in called /\ WritesValidDate(input)) =>
        /\ parsed = WrittenDate(input)
        /\ ("formatDateForLogseq" \in called /\ PaddedIso(input)) => formatted = input

----------------------------------------------------------------------------
(* The plugin at work: people are created, days pass, tasks are completed *)

LifeNames == {"Alice"}

\* no name, white space only, a name, and a name within white space
NameInputs ==
    {<<>>, <<" ">>} \cup {<<n>> : n \in LifeNames} \cup {<<" ", n, " ">> : n \in LifeNames}

LifeBirthdays == {Date(1990, 0, 5), Date(1988, 1, 29)}

LifeZones == {"UTC", "West"}

\* a day before the birthday of 5 January, that birthday, and days after it
LifeDays ==
    {Date(FirstYear, 11, 5), Date(FirstYear + 1, 0, 5), Date(FirstYear + 1, 0, 29),
     Date(FirstYear + 1, 11, 29)}

BirthdayTexts == {formatDateForLogseq(b) : b \in LifeBirthdays}

Init ==
    /\ today \in {d \in LifeDays : d.year = FirstYear}
    /\ tz \in LifeZones
    /\ called = {}
    /\ persons = [n \in LifeNames |-> NoPage]
    /\ journals = {}
    /\ copies = {}
    /\ blocks = <<>>
    /\ handlers = <<>>
    /\ result = Null
    /\ faults = 0
    /\ ArithUnused
    /\ RemindUnused
    /\ ParseUnused
    /\ QueryUnused

Next ==
    \/ \E name \in NameInputs, txt \in BirthdayTexts \cup {<<>>},
          kind \in {"string", "ref"}, fault \in PersonCalls \cup ReminderCalls \cup {"none"} :
          CreatePerson(name, txt, kind, fault)
    \/ \E i \in 1..Len(blocks) : CompleteTask(i)
    \/ \E h \in 1..Len(handlers) :
          \/ HandlerGetPage(h)
          \/ HandlerGetBlock(h)
          \/ HandlerGetJournalPage(h)
          \/ \E outcome \in {"created", "existing", "duplicate"} :
                 HandlerCreateJournalPage(h, outcome)
          \/ HandlerAppendBlock(h)
          \/ HandlerAddBlockTag(h)
          \/ HandlerReject(h)
    \/ \E day \in LifeDays : AdvanceTime(day)

Spec == Init /\ [][Next]_vars

----------------------------------------------------------------------------
(* One call of createPerson, on a store where the page may exist already *)

ExistingPage == [exists |-> TRUE, tagged |-> TRUE, birthday |-> Null]

CreateRequests ==
    [name : NameInputs, txt : BirthdayTexts \cup {<<>>}, kind : {"string", "ref"},
     fault : PersonCalls \cup ReminderCalls \cup {"none"}]

InitCreate ==
    /\ today = Date(FirstYear, 11, 5)
    /\ tz \in LifeZones
    /\ called = {}
    /\ persons \in [LifeNames -> {NoPage, ExistingPage}]
    /\ journals \in {{}, {formatDateForLogseq(Date(FirstYear + 1, 0, 5))}}
    /\ copies = {}
    /\ blocks = <<>>
    /\ handlers = <<>>
    /\ result = Null
    /\ faults = 0
    /\ data \in CreateRequests
    /\ ArithUnused
    /\ RemindUnused
    /\ ParseUnused
    /\ PeopleUnused
    /\ FindUnused
    /\ ListenUnused
    /\ contacts = <<>>
    /\ check = Null

\* createPerson(data), once and again
NextCreate == CreatePerson(data.name, data.txt, data.kind, data.fault)

SpecCreate == InitCreate /\ [][NextCreate]_vars

----------------------------------------------------------------------------
(* Claims about one call of createPerson (checked under SpecCreate) *)

\* a page with the trimmed name of the request exists before the call
NameTaken == ~NameMissing(data.name) /\ persons[personNameOf(data.name)].exists

\* the call returns a failure with a message
ReturnsFailure == result'.success = FALSE /\ result'.error # ""

\* C16: createPerson returns a failure with a message and leaves the store
\* unchanged when the name is empty or white space only or a page with the
\* trimmed name exists; it never throws, returning a failure when any
\* external call rejects.
C16_FailureOnEveryRejection ==
    [][/\ (NameMissing(data.name) \/ NameTaken) => (ReturnsFailure /\ UNCHANGED storeVars)
       /\ Rejects(data.name, data.txt, data.fault) => ReturnsFailure]_vars

\* What holds of one call: the same for the name, a failure is returned when
\* a call made by createPerson itself rejects, and a success when only a call
\* made inside createBirthdayReminderTask rejects (its result is discarded).
C16_FailureOnOwnRejection ==
    [][/\ (NameMissing(data.name) \/ NameTaken) => (ReturnsFailure /\ UNCHANGED storeVars)
       /\ (Rejects(data.name, data.txt, data.fault) /\ data.fault \in PersonCalls)
              => ReturnsFailure
       /\ (Rejects(data.name, data.txt, data.fault) /\ data.fault \in ReminderCalls)
              => result' = Success]_vars

\* a name within white space whose page exists has been refused
C16_Witness ==
    /\ data.name = <<" ", "Alice", " ">>
    /\ data.fault = "none"
    /\ result = Failure("A page named \"Alice\" already exists")
    /\ persons["Alice"] = ExistingPage
    /\ blocks = <<>>

----------------------------------------------------------------------------
(* Claims about the plugin at work (checked under Spec) *)

\* the date a task block's journal page is named after, moved by years
YearsAfter(date, years) == MakeDate(date.year + years, date.month, date.date)

\* C1: completing a birthday task whose occurrence date is D makes
\* handleBirthdayTaskCompleted schedule the new task on (D.year + 1, D.month,
\* D.day), on whatever day the completion is processed.
C1_NextTaskOneYearAfterCompleted ==
    \A i \in 1..Len(blocks) :
        blocks[i].origin # <<>> =>
            blocks[i].page = formatDateForLogseq(YearsAfter(JournalDate(blocks[i].origin), 1))

\* the date written in the birthday property of person n after the step
WrittenBirthday(n) ==
    LET txt == persons'[n].birthday.text
    IN [year |-> txt[1].v, month |-> txt[3].v - 1, date |-> txt[5].v]

\* C2: after createPerson succeeds for a new name with a birthday (no call
\* having rejected), exactly one task block referencing the person has been
\* appended, on the journal page of the birthday's next occurrence; the page
\* is created only if it was not found, and its date is strictly after today
\* and has the birthday's month and day.
C2_CreatePersonSchedulesOneTask ==
    [][\A n \in LifeNames :
          (/\ ~persons[n].exists
           /\ persons'[n].exists
           /\ persons'[n].birthday # Null
           /\ result' = Success
           /\ faults' = faults)
          => /\ Len(blocks') = Len(blocks) + 1
             /\ SubSeq(blocks', 1, Len(blocks)) = blocks
             /\ LET task == blocks'[Len(blocks')]
                    page == JournalDate(task.page)
                IN /\ task.person = n
                   /\ task.status = "TODO"
                   /\ journals' = journals \cup {task.page}
                   /\ DateLess(today, page)
                   /\ page.month = WrittenBirthday(n).month
                   /\ page.date = WrittenBirthday(n).date]_vars

----------------------------------------------------------------------------
(* findProperty: the property of a record found by its base name.  A key is
   kept in three parts, what stands before the name, the name and the
   suffix, the suffix being a sequence of characters; a record is the
   sequence of its entries in the order of Object.keys, and Absent stands
   for a record that is null or undefined. *)

Record(entries) == [given |-> TRUE, entries |-> entries]
Absent == [given |-> FALSE, entries |-> <<>>]

UserPrefix == <<":user.property/">>
PluginPrefix(id) == <<":plugin.property.", id, "/">>

Key(prefix, name, suffix) == [prefix |-> prefix, name |-> name, suffix |-> suffix]

\* the characters of the class [A-Za-z0-9_-] that occur in the keys examined
SuffixChars == {"G", "6", "_", "-"}

\* -[A-Za-z0-9_-]+ to the end of the key
MatchesSuffix(suffix) ==
    /\ Len(suffix) >= 2
    /\ suffix[1] = "-"
    /\ \A i \in 2..Len(suffix) : suffix[i] \in SuffixChars

\* (-[A-Za-z0-9_-]+)?$
MatchesOptionalSuffix(suffix) == suffix = <<>> \/ MatchesSuffix(suffix)

\* the key is baseName itself
IsExactKey(key, name) == key.prefix = <<>> /\ key.name = name /\ key.suffix = <<>>

\* ^:user\.property/${baseName}(-[A-Za-z0-9_-]+)?$
userPropPattern(key, name) ==
    key.prefix = UserPrefix /\ key.name = name /\ MatchesOptionalSuffix(key.suffix)

\* ^:plugin\.property\.[^/]+/${baseName}(-[A-Za-z0-9_-]+)?$
pluginPropPattern(key, name) ==
    /\ Len(key.prefix) = 3
    /\ key.prefix[1] = ":plugin.property."
    /\ key.prefix[2] # ""
    /\ key.prefix[3] = "/"
    /\ key.name = name
    /\ MatchesOptionalSuffix(key.suffix)

\* ^${baseName}-[A-Za-z0-9_-]+$
pattern(key, name) == key.prefix = <<>> /\ key.name = name /\ MatchesSuffix(key.suffix)

\* for (const key of Object.keys(obj)) if (test(key)) return obj[key]
FirstKey(o, Test(_)) ==
    LET matching == {i \in 1..Len(o) : Test(o[i].key)}
    IN  IF matching = {} THEN 0 ELSE CHOOSE i \in matching : \A j \in matching : i <= j

\* the variant that returns the first key in key order that matches any form
findProperty_KeyOrder(o, name) ==
    IF ~o.given THEN Undefined
    ELSE LET any(k) == \/ IsExactKey(k, name)
                       \/ userPropPattern(k, name)
                       \/ pluginPropPattern(k, name)
                       \/ pattern(k, name)
             i == FirstKey(o.entries, any)
         IN  IF i = 0 THEN Undefined ELSE o.entries[i].value

findProperty(o, name) ==
    IF ~o.given THEN Undefined
    ELSE LET e == o.entries
             exact(k) == IsExactKey(k, name)
             user(k) == userPropPattern(k, name)
             plugin(k) == pluginPropPattern(k, name)
             bare(k) == pattern(k, name)
         IN  IF FirstKey(e, exact) # 0 THEN e[FirstKey(e, exact)].value
             ELSE IF FirstKey(e, user) # 0 THEN e[FirstKey(e, user)].value
             ELSE IF FirstKey(e, plugin) # 0 THEN e[FirstKey(e, plugin)].value
             ELSE IF FirstKey(e, bare) # 0 THEN e[FirstKey(e, bare)].value
             ELSE Undefined

MaxKeys == 2

BaseNames == {"birthday", "email"}

Prefixes == {<<>>, UserPrefix, PluginPrefix("people-manager"), <<":logseq.property/">>}

Suffixes == {<<>>, <<"-", "G", "6">>, <<"-", "a", ".">>}

Keys == {Key(p, n, x) : p \in Prefixes, n \in BaseNames, x \in Suffixes}

\* the records of at most MaxKeys distinct keys, the i-th entry holding i
Records ==
    UNION {{Record([i \in 1..n |-> [key |-> ks[i], value |-> NumberValue(i)]]) :
                ks \in {f \in [1..n -> Keys] : \A i, j \in 1..n : i # j => f[i] # f[j]}} :
           n \in 0..MaxKeys}

InitFind ==
    /\ today = Date(FirstYear + 1, 5, 1)
    /\ tz = "UTC"
    /\ called = {}
    /\ obj \in Records \cup {Absent}
    /\ baseName \in BaseNames
    /\ property = Null
    /\ ArithUnused
    /\ RemindUnused
    /\ ParseUnused
    /\ LifeUnused
    /\ PeopleUnused
    /\ ListenUnused
    /\ contacts = <<>>
    /\ check = Null
    /\ data = Null

FindProperty ==
    /\ "findProperty" \notin called
    /\ property' = findProperty(obj, baseName)
    /\ called' = called \cup {"findProperty"}
    /\ UNCHANGED <<envVars, arithVars, remindVars, parseVars, lifeVars, pages, getBlockPlan,
                   contacts, obj, baseName, changed, scheduled, check, data>>

NextFind == FindProperty

SpecFind == InitFind /\ [][NextFind]_vars

----------------------------------------------------------------------------
(* Claims about findProperty (checked under SpecFind) *)

\* the place of a key in the priority of the forms: 1 the name itself, 2 a
\* user key, 3 a plugin key, 4 the bare name with a suffix, 0 no match
FormOf(key, name) ==
    LET named == key.name = name
        suffixed == MatchesSuffix(key.suffix)
        plain == key.suffix = <<>>
    IN  IF named /\ key.prefix = <<>> /\ plain THEN 1
        ELSE IF named /\ key.prefix = UserPrefix /\ (plain \/ suffixed) THEN 2
        ELSE IF /\ named
                /\ \E id \in {"people-manager"} : key.prefix = PluginPrefix(id)
                /\ (plain \/ suffixed) THEN 3
        ELSE IF named /\ key.prefix = <<>> /\ suffixed THEN 4
        ELSE 0

\* the best form among the entries of a record, 0 when no key matches
BestForm(o, name) ==
    LET forms == {FormOf(o[i].key, name) : i \in 1..Len(o)} \ {0}
    IN  IF forms = {} THEN 0 ELSE CHOOSE f \in forms : \A g \in forms : f <= g

\* v is the value of the first key of the best form, in key order
IsBestValue(o, name, v) ==
    IF BestForm(o, name) = 0 THEN v = Undefined
    ELSE \E i \in 1..Len(o) :
            /\ FormOf(o[i].key, name) = BestForm(o, name)
            /\ \A j \in 1..(i - 1) : FormOf(o[j].key, name) # BestForm(o, name)
            /\ v = o[i].value

\* the entries in the other order
Reversed(o) == [i \in 1..Len(o) |-> o[Len(o) + 1 - i]]

\* C18: findProperty returns the value of the first key of the best form
\* present (the name itself, then a user key, then a plugin key, then the
\* bare name with a suffix) whatever the order of the keys, and undefined
\* when no key matches or there is no record.
C18_FindPropertyByPriority ==
    "findProperty" \in called =>
        IF ~obj.given THEN property = Undefined
        ELSE /\ IsBestValue(obj.entries, baseName, property)
             /\ IsBestValue(Reversed(obj.entries), baseName,
                            findProperty(Record(Reversed(obj.entries)), baseName))

\* a key of a lower form stands before the key that is returned
C18_Witness ==
    /\ "findProperty" \in called
    /\ obj.given
    /\ Len(obj.entries) = 2
    /\ FormOf(obj.entries[1].key, baseName) = 4
    /\ FormOf(obj.entries[2].key, baseName) = 2
    /\ property = obj.entries[2].value

----------------------------------------------------------------------------
(* checkAndCreateReminders: a task on the current page for every birthday of
   the next seven days and every contact that is due.  One step of the model
   is one call of createBirthdayTask or createContactTask with its outcome. *)

ReminderWindow == 7

\* the content of the task block, as far as it varies
BirthdayTaskContent(reminder) ==
    [kind |-> "birthday", name |-> reminder.person.name, days |-> reminder.daysUntil]

ContactTaskContent(reminder) ==
    [kind |-> "contact", name |-> reminder.person.name, days |-> reminder.daysOverdue]

\* what a call of createBirthdayTask or createContactTask meets: the block is
\* inserted, there is no current page, or one of its two calls rejects
TaskOutcomes == {"inserted", "noPage", "getCurrentPage", "insertBlock"}

\* the variant that reports every call as a success
taskCreated_Always(outcome) == TRUE

\* the value createBirthdayTask and createContactTask return
taskCreated(outcome) == outcome = "inserted"

\* the two loops one after the other: the k-th reminder handled
WorkLength == Len(reminders) + Len(contacts)
IsBirthdayWork(k) == k <= Len(reminders)
WorkContent(k) ==
    IF IsBirthdayWork(k) THEN BirthdayTaskContent(reminders[k])
    ELSE ContactTaskContent(contacts[k - Len(reminders)])

\* if (reminder.daysOverdue >= 0), which the first loop does not ask
IsAttempted(k) ==
    IF IsBirthdayWork(k) THEN TRUE ELSE contacts[k - Len(reminders)].daysOverdue >= 0

CheckState(pc, k, created, attempted, inserted, reported, thrown) ==
    [pc |-> pc, k |-> k, created |-> created, attempted |-> attempted,
     inserted |-> inserted, reported |-> reported, thrown |-> thrown]

NoCheck == CheckState("none", 0, 0, <<>>, <<>>, -1, "")
CheckPending == CheckState("start", 0, 0, <<>>, <<>>, -1, "")

CheckUnchanged ==
    UNCHANGED <<envVars, called, arithVars, people, withinDays, parseVars, lifeVars,
                pages, getBlockPlan, obj, baseName, property, changed, scheduled, data>>

\* getAllPeople has resolved to people; the two lists are derived
CheckDerive ==
    /\ check.pc = "start"
    /\ reminders' = getUpcomingBirthdays(people, ReminderWindow)
    /\ contacts' = getPeopleToContact(people)
    /\ check' = [check EXCEPT !.pc = "loop", !.k = 1]
    /\ CheckUnchanged

\* one turn of a loop that calls createBirthdayTask or createContactTask
CheckCreateTask(outcome) ==
    /\ check.pc = "loop"
    /\ check.k <= WorkLength
    /\ IsAttempted(check.k)
    /\ check' = [check EXCEPT
                     !.k = @ + 1,
                     !.attempted = Append(@, check.k),
                     !.inserted = IF outcome = "inserted"
                                  THEN Append(@, WorkContent(check.k)) ELSE @,
                     !.created = IF taskCreated(outcome) THEN @ + 1 ELSE @]
    /\ UNCHANGED <<reminders, contacts>>
    /\ CheckUnchanged

\* one turn of the second loop for a reminder with daysOverdue < 0
CheckSkip ==
    /\ check.pc = "loop"
    /\ check.k <= WorkLength
    /\ ~IsAttempted(check.k)
    /\ check' = [check EXCEPT !.k = @ + 1]
    /\ UNCHANGED <<reminders, contacts>>
    /\ CheckUnchanged

\* showMsg after the loops: it reports the count, or it rejects and the
\* rejection leaves checkAndCreateReminders
CheckShowMsg(rejects) ==
    /\ check.pc = "loop"
    /\ check.k > WorkLength
    /\ check' = IF rejects THEN [check EXCEPT !.pc = "thrown", !.thrown = "showMsg"]
                ELSE [check EXCEPT !.pc = "done", !.reported = check.created]
    /\ UNCHANGED <<reminders, contacts>>
    /\ CheckUnchanged

\* a step of handleBirthdayTaskCompleted in which its pending call resolves
HandlerRuns(h) ==
    \/ HandlerGetPage(h)
    \/ HandlerGetBlock(h)
    \/ HandlerGetJournalPage(h)
    \/ \E outcome \in {"created", "existing", "duplicate"} : HandlerCreateJournalPage(h, outcome)
    \/ HandlerAppendBlock(h)
    \/ HandlerAddBlockTag(h)

\* relative to the first of June: a birthday in three days, a birthday today
\* of someone never contacted with cadence 14, someone contacted 20 days ago
\* with cadence 14, someone never contacted with cadence -5, and someone with
\* a birthday in January and no cadence
CheckKinds ==
    {[birthday |-> Date(1990, 5, 4), lastContact |-> Null, contactFrequency |-> NullNumber],
     [birthday |-> Date(1990, 5, 1), lastContact |-> Null, contactFrequency |-> Number(14)],
     [birthday |-> Null, lastContact |-> Date(FirstYear + 1, 4, 12),
      contactFrequency |-> Number(14)],
     [birthday |-> Null, lastContact |-> Null, contactFrequency |-> Number(-5)],
     [birthday |-> Date(1990, 0, 5), lastContact |-> Null, contactFrequency |-> NullNumber]}

CheckLists ==
    UNION {{[i \in 1..n |-> [name |-> PersonNames[i], birthday |-> ks[i].birthday,
                              lastContact |-> ks[i].lastContact,
                              contactFrequency |-> ks[i].contactFrequency]] :
               ks \in [1..n -> CheckKinds]} : n \in 0..MaxPeople}

\* the pages of the people whose birthday tasks have just been completed
CompletedNames == {PersonNames[i] : i \in 1..MaxHandlers}

\* checkAndCreateReminders is about to run on the people found
InitCheckRun ==
    /\ today = Date(FirstYear + 1, 5, 1)
    /\ tz = "UTC"
    /\ people \in CheckLists
    /\ check = CheckPending
    /\ LifeUnused

\* the birthday tasks of MaxHandlers people have been completed on one day
InitCompletions ==
    /\ today = Date(FirstYear + 1, 0, 5)
    /\ tz \in LifeZones
    /\ people = <<>>
    /\ check = NoCheck
    /\ \E kind \in {"string", "ref"} : \E txts \in [CompletedNames -> BirthdayTexts] :
           persons = [n \in CompletedNames |->
                         [exists |-> TRUE, tagged |-> TRUE,
                          birthday |-> StoredBirthday(kind, txts[n])]]
    /\ journals = {}
    /\ copies = {}
    /\ blocks = <<>>
    /\ handlers = [i \in 1..MaxHandlers |->
                      Handler("getPage", PersonNames[i],
                              formatDateForLogseq(Date(FirstYear + 1, 0, 5)), 0, <<>>, 0)]
    /\ result = Null
    /\ faults = 0

InitCheck ==
    /\ called = {}
    /\ withinDays = 0
    /\ reminders = <<>>
    /\ contacts = <<>>
    /\ ArithUnused
    /\ ParseUnused
    /\ PeopleUnused
    /\ FindUnused
    /\ ListenUnused
    /\ data = Null
    /\ (InitCheckRun \/ InitCompletions)

NextCheck ==
    \/ CheckDerive
    \/ \E outcome \in TaskOutcomes : CheckCreateTask(outcome)
    \/ CheckSkip
    \/ \E rejects \in BOOLEAN : CheckShowMsg(rejects)
    \/ \E h \in 1..Len(handlers) : HandlerRuns(h)
    \/ \E h \in 1..Len(handlers) : HandlerReject(h)

SpecCheck == InitCheck /\ [][NextCheck]_vars

----------------------------------------------------------------------------
(* Claims about failures of task creation (checked under SpecCheck) *)

\* the reminders a task is to be created for, in the order of the two loops
RECURSIVE AttemptedUpTo(_)
AttemptedUpTo(k) ==
    IF k = 0 THEN <<>>
    ELSE IF IsAttempted(k) THEN Append(AttemptedUpTo(k - 1), k) ELSE AttemptedUpTo(k - 1)

\* the handlers that have returned, and the task blocks that are tagged
EndedHandlers == {h \in 1..Len(handlers) : handlers[h].pc = "done"}
TaggedBlocks == {b \in 1..Len(blocks) : blocks[b].tagged}

\* checkAndCreateReminders has left its loops
LoopsOver == check.pc \in {"done", "thrown"}

\* C17: a failed creation of one task does not stop checkAndCreateReminders:
\* creation is attempted for every birthday reminder and every contact
\* reminder that is due, no failure of a creation leaves the operation, and
\* the count reported is the number of tasks inserted; and every handler of
\* a completed birthday task that has ended has scheduled and tagged the
\* next task, but for the handlers in which a call failed.
C17_FailuresStayLocal ==
    /\ check.pc = "loop" =>
          /\ check.attempted = AttemptedUpTo(check.k - 1)
          /\ check.created = Len(check.inserted)
    /\ LoopsOver =>
          /\ check.attempted = AttemptedUpTo(WorkLength)
          /\ check.created = Len(check.inserted)
          /\ check.pc = "done" => check.reported = Len(check.inserted)
          /\ check.pc = "thrown" => check.thrown = "showMsg"
    /\ Cardinality(TaggedBlocks) = Cardinality(EndedHandlers) - faults

\* two creations failed and the one between them and the one after them
\* succeeded, and the count reported is two
C17_Witness ==
    /\ check.pc = "done"
    /\ Len(check.attempted) = 4
    /\ Len(check.inserted) = 2
    /\ check.inserted[1] = WorkContent(2)
    /\ check.inserted[2] = WorkContent(4)
    /\ ~IsBirthdayWork(4)
    /\ check.reported = 2

\* the handler of one completion failed and the handler of another person's
\* completion has scheduled and tagged the next task
C17_HandlerWitness ==
    /\ Len(handlers) >= 2
    /\ faults = 1
    /\ \A h \in 1..Len(handlers) : handlers[h].pc = "done"
    /\ Len(blocks) = Len(handlers) - 1
    /\ \A b \in 1..Len(blocks) : blocks[b].tagged

----------------------------------------------------------------------------
(* The birthday of one page as handleBirthdayTaskCompleted resolves it, next
   to the birthday getAllPeople resolves for the same page *)

MsPerHour == 3600000

\* parseDate of a number: new Date(value) takes it as milliseconds since
\* 1 January 1970 UTC; the local calendar date of that instant
parseDateOfNumber(n) ==
    IF n = 0 THEN Null
    ELSE LET epoch == Date(1970, 0, 1)
             localHours == Floor(n, MsPerHour) + TimezoneOffset(epoch)
         IN  FromDayNumber(DayNumber(epoch.year, epoch.month, epoch.date)
                           + Floor(localHours, HoursPerDay))

\* birthdayDate of handleBirthdayTaskCompleted; how is the outcome of getBlock,
\* whose rejection ends the handler with no date
handlerBirthdayDate(raw, how) ==
    IF ~IsTruthy(raw) THEN Null
    ELSE IF raw.kind = "ref"
    THEN IF how # "ok" THEN Null
         ELSE IF raw.ent.journalDay # 0 THEN parseJournalDay(raw.ent.journalDay)
         ELSE IF raw.ent.journal_day # 0 THEN parseJournalDay(raw.ent.journal_day)
         ELSE parseDate(OrElse(raw.ent.name, raw.ent.title))
    ELSE IF raw.kind = "string" THEN parseDate(raw.text)
    ELSE parseDateOfNumber(raw.num)

\* records with every combination of the three journal-day fields, a title
\* (a date or not) and a name
ResolveEntities ==
    {Entity(a, b, c, t, n, <<>>, Undefined) :
        a \in {0, DayJan5},
        b \in {0, journalDayOf(Date(1990, 1, 6))},
        c \in {0, journalDayOf(Date(1990, 2, 7))},
        t \in {<<>>, TextMay12, TextFriend},
        n \in {<<>>, TextMay27}}

ResolveRaws ==
    {RawUndefined, RawString(TextMay12), RawString(TextFriend), RawNumber(DayJan5)}
    \cup {RawRef(e) : e \in ResolveEntities}

InitResolve ==
    /\ today = Date(FirstYear + 1, 5, 1)
    /\ tz \in TimeZones
    /\ called = {}
    /\ \E raw \in ResolveRaws :
           pages = <<Page("Alice", raw, RawUndefined, RawUndefined, RawUndefined)>>
    /\ getBlockPlan \in {Null} \cup {[page |-> 1, field |-> "birthday", how |-> h] :
                                        h \in {"null", "reject"}}
    /\ people = <<>>
    /\ withinDays = 0
    /\ reminders = <<>>
    /\ contacts = <<>>
    /\ ArithUnused
    /\ ParseUnused
    /\ LifeUnused
    /\ FindUnused
    /\ ListenUnused
    /\ check = Null
    /\ data = Null

\* handleBirthdayTaskCompleted up to its birthdayDate, for the page
ResolveForReschedule ==
    /\ "handleBirthdayTaskCompleted" \notin called
    /\ birthday' = handlerBirthdayDate(pages[1].birthday,
                                       GetBlockOutcome(getBlockPlan, 1, "birthday"))
    /\ called' = called \cup {"handleBirthdayTaskCompleted"}
    /\ UNCHANGED <<queryVars, today, tz, daysUntil, nextBirthday, age, remindVars, parseVars,
                   lifeVars>>

NextResolve == GetAllPeople \/ ResolveForReschedule

SpecResolve == InitResolve /\ [][NextResolve]_vars

----------------------------------------------------------------------------
(* Claims about the two resolutions of a birthday (checked under SpecResolve) *)

BothResolved == {"getAllPeople", "handleBirthdayTaskCompleted"} \subseteq called

\* C23: the birthday handleBirthdayTaskCompleted resolves for a page has the
\* month and day of the birthday getAllPeople resolves for it, whether the
\* property is a date text, a YYYYMMDD number or a reference to a record with
\* any of journalDay, journal-day, :block/journal-day, title and name.
C23_SameBirthdayResolved ==
    BothResolved =>
        IF people[1].birthday = Null THEN birthday = Null
        ELSE birthday # Null /\ SameMonthDay(birthday, people[1].birthday)

----------------------------------------------------------------------------
(* Change notifications about a birthday task, also when it is done already *)

\* the content of a task block as the change listener reads it
ContentOf(block) ==
    <<block.status, " ", "[[", block.person, "]]", StraightApostrophe, "s Birthday", "!">>

\* the handlers the callback of onChanged starts for a batch of blocks, given
\* by their indices: one for every block that is a done birthday task
RECURSIVE handlersStarted(_)
handlersStarted(batch) ==
    IF batch = <<>> THEN <<>>
    ELSE LET block == blocks[Head(batch)]
             content == ContentOf(block)
             personName == extractBirthdayPersonName(content)
         IN (IF isBirthdayTask(content) /\ StartsWithDone(content) /\ personName # <<>>
             THEN <<Handler("getPage", personName[1], block.page, 0, <<>>, 0)>>
             ELSE <<>>) \o handlersStarted(Tail(batch))

\* the batches of one notification: one or two blocks, a block may be listed twice
Batches == UNION {[1..n -> 1..Len(blocks)] : n \in 1..2}

\* a change notification arrives for blocks that have changed in any way
Notification(batch) ==
    /\ Len(handlers) + Len(handlersStarted(batch)) <= MaxHandlers
    /\ handlers' = handlers \o handlersStarted(batch)
    /\ UNCHANGED <<queryVars, envVars, called, arithVars, remindVars, parseVars, storeVars,
                   result, faults>>

\* Alice's birthday task of this year is on its journal page, to be done
InitNotify ==
    /\ today = Date(FirstYear + 1, 0, 5)
    /\ tz \in LifeZones
    /\ called = {}
    /\ \E kind \in {"string", "ref"} :
           persons = [n \in LifeNames |->
                         [exists |-> TRUE, tagged |-> TRUE,
                          birthday |-> StoredBirthday(kind, formatDateForLogseq(Date(1990, 0, 5)))]]
    /\ journals = {formatDateForLogseq(Date(FirstYear + 1, 0, 5))}
    /\ copies = {}
    /\ blocks = <<TaskBlock(formatDateForLogseq(Date(FirstYear + 1, 0, 5)), "Alice", TRUE, <<>>)>>
    /\ handlers = <<>>
    /\ result = Null
    /\ faults = 0
    /\ ArithUnused
    /\ RemindUnused
    /\ ParseUnused
    /\ QueryUnused

NextNotify ==
    \/ \E i \in 1..Len(blocks) : CompleteTask(i)
    \/ \E batch \in Batches : Notification(batch)
    \/ \E h \in 1..Len(handlers) : HandlerRuns(h)
    \/ \E h \in 1..Len(handlers) : HandlerReject(h)

SpecNotify == InitNotify /\ [][NextNotify]_vars

----------------------------------------------------------------------------
(* Claims about repeated notifications (checked under SpecNotify) *)

\* the next-year tasks created for a person after the task of an occurrence
NextYearTasks(personName, origin) ==
    {i \in 1..Len(blocks) : blocks[i].person = personName /\ blocks[i].origin = origin}

\* C22: whatever change notifications arrive, also several for the same done
\* task or one batch listing it twice, at most one next-year task is created
\* for a person and an occurrence.
C22_OneTaskPerCompletion ==
    \A i \in 1..Len(blocks) :
        blocks[i].origin # <<>> =>
            Cardinality(NextYearTasks(blocks[i].person, blocks[i].origin)) <= 1

----------------------------------------------------------------------------
(* Completions of the birthday tasks of different people, handled at the same
   time: the steps of the handlers interleave at every await *)

InitRace == InitCheck /\ check = NoCheck

NextRace ==
    \/ \E h \in 1..Len(handlers) : HandlerRuns(h)
    \/ \E h \in 1..Len(handlers) : HandlerReject(h)

SpecRace == InitRace /\ [][NextRace]_vars

----------------------------------------------------------------------------
(* Claims about concurrent completions (checked under SpecRace) *)

\* the journal page a handler run on its own schedules the person's task on
PageScheduledFor(personName) ==
    LET stored == persons[personName].birthday
    IN nextYearJournal(IF stored.kind = "ref" THEN parseJournalDay(stored.journalDay)
                       ELSE parseDate(stored.text))

\* the store after the completions have been handled one after the other, in
\* any order: one tagged task for each person on its page, one page per date
HandledOneByOne ==
    /\ Len(blocks) = Len(handlers)
    /\ \A h \in 1..Len(handlers) :
           \E b \in 1..Len(blocks) :
               /\ blocks[b].person = handlers[h].name
               /\ blocks[b].page = PageScheduledFor(handlers[h].name)
               /\ blocks[b].tagged
    /\ journals = {PageScheduledFor(handlers[h].name) : h \in 1..Len(handlers)}
    /\ copies = {}

AllHandled == \A h \in 1..Len(handlers) : handlers[h].pc = "done"

\* C21: when the completions of different people are handled concurrently
\* and no call fails, the final store is the one left by handling them one
\* after the other: each person has the next-year task, and there is one
\* journal page for a date, also when two birthdays are on the same day.
C21_ConcurrentAsSequential ==
    (Len(handlers) >= 2 /\ AllHandled /\ faults = 0) => HandledOneByOne

============================================================================
